---- MODULE Spec2Model ----
(***************************************************************************)
(* A model of the respackr resourcepack generator.                         *)
(*                                                                         *)
(* Paths are sequences of one-character strings, so str.startswith,        *)
(* str.replace, str.rstrip and slicing are modelled as Python computes     *)
(* them.  A dict is a sequence of [k, v] records with pairwise distinct    *)
(* keys: Python dicts iterate in insertion order, assigning to an existing *)
(* key keeps its position and a new key is appended.  File contents are    *)
(* records [tok |-> token]; json_loads gives the document a token holds,   *)
(* and a generated descriptor is a record of its computed fields.          *)
(***************************************************************************)
EXTENDS Integers, Sequences, FiniteSets, TLC

VARIABLES
    pc,             \* position of the run / of the operation under analysis
    src_files,      \* AssetStore: ordered dict path -> content
    gen_images,     \* ResolutionIndex: dpi -> ordered dict path -> content
    formats,        \* config "formats": tier key -> label
    max_format,     \* config "max_format" (future-format buffer), None if missing
    dpi_values,     \* dpi_values_to_process: ordered dict scale -> dpi
    svg_process_toggle,
    allowed_paths,  \* config "allowed_paths"
    license_file,   \* config "license_file", <<>> when not configured
    args,           \* command line: [format, dry_run]
    cur_fmt,        \* tier the loop / the operation is at
    cur_scale,      \* scale the archive step / the operation is at
    todo,           \* tiers the loop has still to visit, in visiting order
    scales_todo,    \* scales the current tier has still to archive
    zips,           \* archives assembled so far
    errors,         \* error kinds recorded so far, in order
    exit_code,      \* process exit status once the run has ended early
    scanned,        \* the store and index as they were before the tier loop
    pre_src,        \* AssetStore before the last overlay operation
    pre_img,        \* ResolutionIndex before the last overlay operation
    left_src,       \* AssetStore as the previous tier iteration left it
    left_img,       \* ResolutionIndex as the previous tier iteration left it
    visited,        \* tiers whose iteration has started, in order
    sources,        \* ResolutionTagger input: the source paths in order
    tagged,         \* ResolutionTagger output: proxy_dict and self.errors
    color_map,      \* config.color_map: the baseline colours by name
    theme_color_map,\* the "colors" of the theme file
    sorted_scales,  \* config.sorted_scales: the declared scales and their DPIs
    flags,          \* command line: [theme, scale, exit_error]
    loader          \* a SourceLoader: its mapping and attributes

vars == <<pc, src_files, gen_images, formats, max_format, dpi_values,
          svg_process_toggle, allowed_paths, license_file, args, cur_fmt,
          cur_scale, todo, scales_todo, zips, errors, exit_code, scanned,
          pre_src, pre_img, left_src, left_img, visited, sources, tagged,
          color_map, theme_color_map, sorted_scales, flags, loader>>

\* Python's None where an int is expected (--format, scale, dpi)
None == -1

Raw(token) == [tok |-> token]

------------------------------------------------------------------------------
(* Strings *)

DigitChar == <<"0", "1", "2", "3", "4", "5", "6", "7", "8", "9">>

RECURSIVE Str(_)
Str(n) ==
    IF n < 10 THEN <<DigitChar[n + 1]>>
    ELSE Str(n \div 10) \o <<DigitChar[(n % 10) + 1]>>

startswith(s, p) == Len(p) <= Len(s) /\ SubSeq(s, 1, Len(p)) = p

endswith(s, p) == Len(p) <= Len(s) /\ SubSeq(s, Len(s) - Len(p) + 1, Len(s)) = p

\* str.replace('\\', '/')
replace_backslash(s) == [i \in 1..Len(s) |-> IF s[i] = "\\" THEN "/" ELSE s[i]]

RECURSIVE rstrip_slash(_)
rstrip_slash(s) ==
    IF s # <<>> /\ s[Len(s)] = "/" THEN rstrip_slash(SubSeq(s, 1, Len(s) - 1))
    ELSE s

DotJson == <<".", "j", "s", "o", "n">>
DotSvg == <<".", "s", "v", "g">>
DotPng == <<".", "p", "n", "g">>

------------------------------------------------------------------------------
(* Ordered dicts *)

EmptyDict == <<>>

Keys(d) == {d[i].k : i \in DOMAIN d}

KeyList(d) == [i \in DOMAIN d |-> d[i].k]

Has(d, key) == key \in Keys(d)

Get(d, key) == (CHOOSE i \in DOMAIN d : d[i].k = key)

Val(d, key) == d[Get(d, key)].v

\* d[key] = val
Put(d, key, val) ==
    IF Has(d, key) THEN [d EXCEPT ![Get(d, key)].v = val]
    ELSE Append(d, [k |-> key, v |-> val])

\* del d[key], for a key that is present
Del(d, key) == SelectSeq(d, LAMBDA e : e.k # key)

AsMap(d) == [key \in Keys(d) |-> Val(d, key)]

------------------------------------------------------------------------------
(* Documents held by content tokens *)

\* json.loads(file_data) followed by exclusion_data.get('exclusions') for the
\* tokens a tier manifest can hold: valid is FALSE when json.loads raises,
\* has_list is FALSE when the document has no "exclusions" list (get returns
\* None).  Any other content is not JSON.
json_loads(data) ==
    CASE data.tok = "m_file"  -> [valid |-> TRUE, has_list |-> TRUE,
                              exclusions |-> << <<"a", "/", "x", ".", "p", "n", "g">> >>]
      [] data.tok = "m_dir"   -> [valid |-> TRUE, has_list |-> TRUE,
                              exclusions |-> << <<"a", "\\">> >>]
      [] data.tok = "m_svg"   -> [valid |-> TRUE, has_list |-> TRUE,
                              exclusions |-> << <<"a", "/", "i", ".", "s", "v", "g">>,
                                                <<"b", "/">> >>]
      [] data.tok = "m_tier"  -> [valid |-> TRUE, has_list |-> TRUE,
                              exclusions |-> << <<"a", "/", "x", ".", "p", "n", "g">>,
                                                <<"5">> >>]
      [] data.tok = "m_none"  -> [valid |-> TRUE, has_list |-> TRUE, exclusions |-> <<>>]
      [] data.tok = "m_nolist" -> [valid |-> TRUE, has_list |-> FALSE, exclusions |-> <<>>]
      [] OTHER            -> [valid |-> FALSE, has_list |-> FALSE, exclusions |-> <<>>]

------------------------------------------------------------------------------
(* TierOverlay: exclusion *)

normalize(path) == rstrip_slash(replace_backslash(path))

\* the comprehension building excluded_paths
normalize_all(paths) == [i \in DOMAIN paths |-> normalize(paths[i])]

\* excluded_path[:-4] + '.png' if excluded_path.endswith('.svg') else
\* excluded_path, then rstrip('/')
png_path(excluded_path) ==
    rstrip_slash(IF endswith(excluded_path, DotSvg)
                 THEN SubSeq(excluded_path, 1, Len(excluded_path) - 4) \o DotPng
                 ELSE excluded_path)

\* path_matches as a plain string-prefix test
path_matches_prefix(normalized_rel_path, prefix) ==
    \/ normalized_rel_path = prefix
    \/ startswith(normalized_rel_path, prefix)

path_matches(normalized_rel_path, prefix) ==
    \/ normalized_rel_path = prefix
    \/ startswith(normalized_rel_path, prefix \o <<"/">>)

\* the loop over list(src_files.keys())
RECURSIVE exclude_src(_, _, _)
exclude_src(keys, files, excluded_paths) ==
    IF keys = <<>> THEN files
    ELSE LET rel_path == Head(keys)
             hit == \E i \in DOMAIN excluded_paths :
                        path_matches(normalize(rel_path), excluded_paths[i])
         IN exclude_src(Tail(keys),
                        IF hit /\ Has(files, rel_path) THEN Del(files, rel_path)
                        ELSE files,
                        excluded_paths)

\* the loop over list(png_files.keys()) of one DPI bucket
RECURSIVE exclude_png(_, _, _)
exclude_png(keys, png_files, excluded_paths) ==
    IF keys = <<>> THEN png_files
    ELSE LET rel_path == Head(keys)
             hit == \E i \in DOMAIN excluded_paths :
                        path_matches(normalize(rel_path), png_path(excluded_paths[i]))
         IN exclude_png(Tail(keys),
                        IF hit /\ Has(png_files, rel_path) THEN Del(png_files, rel_path)
                        ELSE png_files,
                        excluded_paths)

manifest_path(fmt) == Str(fmt) \o DotJson

\* raised: json.loads or the iteration over a missing exclusions list raised,
\* outside the try block, so the exception leaves the function.
apply_exclusions(fmt, files, images) ==
    IF ~Has(files, manifest_path(fmt))
    THEN [src |-> files, img |-> images, raised |-> FALSE]
    ELSE LET doc == json_loads(Val(files, manifest_path(fmt)))
         IN IF ~doc.valid \/ ~doc.has_list
            THEN [src |-> files, img |-> images, raised |-> TRUE]
            ELSE LET excluded_paths == normalize_all(doc.exclusions)
                 IN [src |-> exclude_src(KeyList(files), files, excluded_paths),
                     img |-> [dpi \in DOMAIN images |->
                                 exclude_png(KeyList(images[dpi]), images[dpi],
                                             excluded_paths)],
                     raised |-> FALSE]

\* the tier folder's entries moved over the generic ones (used by the variant
\* below only)
RECURSIVE merge_first(_, _, _)
merge_first(items, files, prefix) ==
    IF items = <<>> THEN files
    ELSE LET e == Head(items)
             rest == IF startswith(e.k, prefix)
                     THEN Put(Del(files, e.k), SubSeq(e.k, Len(prefix) + 1, Len(e.k)), e.v)
                     ELSE files
         IN merge_first(Tail(items), rest, prefix)

apply_inclusions_first(fmt, files, images) ==
    [src |-> merge_first(files, files, Str(fmt) \o <<"/">>),
     img |-> [dpi \in DOMAIN images |->
                 merge_first(images[dpi], images[dpi], Str(fmt) \o <<"/">>)]]

\* gs_apply_exclusions as it would be if the tier's folder were merged first
gs_apply_exclusions_merged(fmt, files, images) ==
    LET r == apply_exclusions(fmt, files, images)
    IN IF r.raised THEN r
       ELSE LET moved == apply_inclusions_first(fmt, files, images)
            IN apply_exclusions(fmt, moved.src, moved.img)

\* genscript.py has the same function, with source_dir as an unused parameter
gs_apply_exclusions(fmt, files, images) == apply_exclusions(fmt, files, images)

------------------------------------------------------------------------------
(* TierOverlay: inclusion *)

inc_dir(fmt) == Str(fmt) \o <<"/">>

strip_prefix(rel_path, prefix) == SubSeq(rel_path, Len(prefix) + 1, Len(rel_path))

\* genscript.py: every entry is copied into a new dict, in iteration order,
\* the prefixed ones under their stripped path
RECURSIVE gs_remap(_, _, _)
gs_remap(items, new_files, prefix) ==
    IF items = <<>> THEN new_files
    ELSE LET e == Head(items)
         IN gs_remap(Tail(items),
                     IF startswith(e.k, prefix)
                     THEN Put(new_files, strip_prefix(e.k, prefix), e.v)
                     ELSE Put(new_files, e.k, e.v),
                     prefix)

\* new_gen_images is a defaultdict: a DPI gets a bucket when an entry is copied
gs_apply_inclusions(fmt, files, images) ==
    [src |-> gs_remap(files, EmptyDict, inc_dir(fmt)),
     img |-> [dpi \in {d \in DOMAIN images : images[d] # <<>>} |->
                 gs_remap(images[dpi], EmptyDict, inc_dir(fmt))]]

\* modules/inclusion.py: the entries under the tier's folder are moved in place;
\* a failing del is caught per entry and the loop goes on
RECURSIVE move_filtered(_, _, _)
move_filtered(filtered, files, prefix) ==
    IF filtered = <<>> THEN files
    ELSE LET e == Head(filtered)
             put == Put(files, strip_prefix(e.k, prefix), e.v)
         IN move_filtered(Tail(filtered),
                          IF Has(put, e.k) THEN Del(put, e.k) ELSE put,
                          prefix)

filter_prefix(d, prefix) == SelectSeq(d, LAMBDA e : startswith(e.k, prefix))

apply_inclusions(fmt, files, images) ==
    LET filtered_src == filter_prefix(files, inc_dir(fmt))
        filtered_img == {dpi \in DOMAIN images :
                            filter_prefix(images[dpi], inc_dir(fmt)) # <<>>}
    IN IF filtered_src = <<>> /\ filtered_img = {}
       THEN [src |-> files, img |-> images]
       ELSE [src |-> move_filtered(filtered_src, files, inc_dir(fmt)),
             img |-> [dpi \in DOMAIN images |->
                         IF dpi \in filtered_img
                         THEN move_filtered(filter_prefix(images[dpi], inc_dir(fmt)),
                                            images[dpi], inc_dir(fmt))
                         ELSE images[dpi]]]

------------------------------------------------------------------------------
(* ArchiveAssembler *)

ScalePrefix == <<"s", "c", "a", "l", "e", "_">>
NoneChars == <<"N", "o", "n", "e">>
PackPng == <<"p", "a", "c", "k", ".", "p", "n", "g">>
PackMcmeta == <<"p", "a", "c", "k", ".", "m", "c", "m", "e", "t", "a">>
PackJson == <<"p", "a", "c", "k", ".", "j", "s", "o", "n">>

\* f"scale_{scale}.png"
scale_icon(scale) ==
    ScalePrefix \o (IF scale = None THEN NoneChars ELSE Str(scale)) \o DotPng

\* any(rel_path.startswith(p) or rel_path == p for p in allowed_paths)
is_allowed(rel_path, allowed) ==
    \E i \in DOMAIN allowed : startswith(rel_path, allowed[i]) \/ rel_path = allowed[i]

\* the loop over src_files.items(); z is [written, added, errors]
RECURSIVE zip_src(_, _, _)
zip_src(items, z, allowed) ==
    IF items = <<>> THEN z
    ELSE LET e == Head(items)
         IN zip_src(Tail(items),
                    IF is_allowed(e.k, allowed)
                    THEN [z EXCEPT !.written = Append(@, [name |-> e.k, data |-> e.v]),
                                   !.added = @ \cup {e.k}]
                    ELSE z,
                    allowed)

\* the loop over gen_images[dpi].items()
RECURSIVE zip_png(_, _, _)
zip_png(items, z, allowed) ==
    IF items = <<>> THEN z
    ELSE LET e == Head(items)
         IN zip_png(Tail(items),
                    IF ~is_allowed(e.k, allowed) THEN z
                    ELSE IF e.k \in z.added
                         THEN [z EXCEPT !.errors = Append(@, "duplicate_png")]
                         ELSE [z EXCEPT !.written = Append(@, [name |-> e.k, data |-> e.v]),
                                        !.added = @ \cup {e.k}],
                    allowed)

\* the icon and license steps; license is the configured path (<<>> when not
\* configured), env tells what the filesystem does
zip_head(files, scale, license, env) ==
    LET z0 == [written |-> <<>>, added |-> {}, errors |-> <<>>]
        z1 == IF Has(files, scale_icon(scale))
              THEN [z0 EXCEPT !.written = Append(@, [name |-> PackPng,
                                                     data |-> Val(files, scale_icon(scale))]),
                              !.added = @ \cup {scale_icon(scale)}]
              ELSE z0
    IN IF license # <<>> /\ env.license_exists
       THEN IF env.license_readable
            THEN [z1 EXCEPT !.written = Append(@, [name |-> license, data |-> Raw("license")]),
                            !.added = @ \cup {license}]
            ELSE [z1 EXCEPT !.errors = Append(@, "license_read_error")]
       ELSE z1

NoZip == [written |-> <<>>, added |-> {}, errors |-> <<>>]

\* genscript.py; ret is the returned bool, created tells whether a zip file
\* was written at all, exit is the status record_error ends the run with (it
\* exits on every error it is given a code for), 0 when the run goes on
gs_create_zip_archive(files, images, scale, dpi, license, allowed, env) ==
    IF env.dry_run THEN [z |-> NoZip, ret |-> TRUE, created |-> FALSE, exit |-> 0]
    ELSE IF ~env.makedirs_ok
    THEN [z |-> [NoZip EXCEPT !.errors = <<"directory_creation_error">>],
          ret |-> FALSE, created |-> FALSE, exit |-> 51]
    ELSE IF license # <<>> /\ env.license_exists /\ ~env.license_readable
    THEN [z |-> zip_head(files, scale, license, env),
          ret |-> FALSE, created |-> TRUE, exit |-> 53]
    ELSE LET z2 == zip_src(files, zip_head(files, scale, license, env), allowed)
             z3 == IF dpi # None /\ dpi \in DOMAIN images
                   THEN zip_png(images[dpi], z2, allowed)
                   ELSE z2
         IN [z |-> z3, ret |-> TRUE, created |-> TRUE, exit |-> 0]

\* modules/makezip.py: the DPI is looked up from the scale; with no scale
\* cur_dpi is unbound, and the icon step's log line raises once the icon is in
create_zip_archive(files, images, scale, scales, license, allowed, env) ==
    IF env.dry_run THEN [z |-> NoZip, ret |-> TRUE, created |-> FALSE]
    ELSE IF ~env.makedirs_ok
    THEN [z |-> [NoZip EXCEPT !.errors = <<"directory_creation_error">>],
          ret |-> FALSE, created |-> FALSE]
    ELSE IF scale = None /\ Has(files, scale_icon(scale))
    THEN [z |-> [written |-> <<[name |-> PackPng,
                                data |-> Val(files, scale_icon(scale))]>>,
                 added |-> {scale_icon(scale)},
                 errors |-> <<"zip_creation_error">>],
          ret |-> FALSE, created |-> TRUE]
    ELSE LET z2 == zip_src(files, zip_head(files, scale, license, env), allowed)
             z3 == IF scale # None /\ scales[scale] \in DOMAIN images
                   THEN zip_png(images[scales[scale]], z2, allowed)
                   ELSE z2
         IN [z |-> z3, ret |-> TRUE, created |-> TRUE]

------------------------------------------------------------------------------
(* Configuration *)

SetMax(S) == CHOOSE x \in S : \A y \in S : y <= x

\* sorted_reverse as it would be without reverse=True
RECURSIVE sorted_ascending(_)
sorted_ascending(S) ==
    IF S = {} THEN <<>>
    ELSE LET low == CHOOSE x \in S : \A y \in S : x <= y
         IN <<low>> \o sorted_ascending(S \ {low})

\* sorted(formats_data.items(), reverse=True): the keys, highest first
RECURSIVE sorted_reverse(_)
sorted_reverse(S) ==
    IF S = {} THEN <<>>
    ELSE <<SetMax(S)>> \o sorted_reverse(S \ {SetMax(S)})

\* config.sorted_formats / load_config's sorted_formats: the declared tier
\* keys as the dict iterates them
sorted_formats(fmts) == sorted_reverse(DOMAIN fmts)

------------------------------------------------------------------------------
(* MetaGenerator *)

\* the first key lower than cur, plus one
RECURSIVE first_lower(_, _)
first_lower(keys, cur) ==
    IF keys = <<>> THEN cur
    ELSE IF Head(keys) < cur THEN Head(keys) + 1
    ELSE first_lower(Tail(keys), cur)

get_min_fmt(cur, fmts) == first_lower(sorted_formats(fmts), cur)

\* max_fmt is the configured buffer, None when the key is missing from the
\* config: reading config.max_format then ends the run (ConfigLoader.__getattr__)
get_max_fmt(cur, fmts, max_fmt) ==
    IF cur = Head(sorted_formats(fmts))
    THEN IF max_fmt = None THEN [exit |-> 7, val |-> cur]
         ELSE IF max_fmt # 0 THEN [exit |-> 0, val |-> cur + max_fmt]
         ELSE [exit |-> 0, val |-> cur]
    ELSE [exit |-> 0, val |-> cur]

\* what the pack.json template holds once the placeholders are filled in
template_valid(data) == data.tok = "template"

\* modules/mcmeta.py.  exit is the process exit status (0: none), raised tells
\* that an exception left the function (sorted_formats[cur_fmt] on a key that is
\* not declared)
generate_pack_mcmeta(fmt, scale, files, fmts, max_fmt) ==
    LET cur == IF fmt = 0 THEN 1 ELSE fmt
        max == get_max_fmt(cur, fmts, max_fmt)
        removed == IF Has(files, PackMcmeta) THEN Del(files, PackMcmeta) ELSE files
    IN IF max.exit # 0 THEN [src |-> files, exit |-> max.exit, raised |-> FALSE]
       ELSE IF cur \notin DOMAIN fmts THEN [src |-> files, exit |-> 0, raised |-> TRUE]
       ELSE IF ~Has(removed, PackJson) THEN [src |-> removed, exit |-> 81, raised |-> FALSE]
       ELSE IF ~template_valid(Val(removed, PackJson))
       THEN [src |-> removed, exit |-> 85, raised |-> FALSE]
       ELSE [src |-> Put(removed, PackMcmeta,
                         [tok |-> "pack.mcmeta",
                          format |-> cur,
                          min_format |-> get_min_fmt(cur, fmts),
                          max_format |-> max.val,
                          versions |-> fmts[cur],
                          scale |-> scale]),
             exit |-> 0, raised |-> FALSE]

\* gs_generate_pack_mcmeta as it would be if a descriptor already in the store
\* were kept
gs_generate_pack_mcmeta_kept(fmt, fmts, scale, files) ==
    IF Has(files, PackMcmeta) THEN files
    ELSE Put(files, PackMcmeta,
             [tok |-> "pack.mcmeta",
              format |-> IF fmt = 0 THEN 1 ELSE fmt,
              min_format |-> first_lower(sorted_formats(fmts), IF fmt = 0 THEN 1 ELSE fmt),
              max_format |-> IF fmt = 0 THEN 1 ELSE fmt,
              scale |-> scale])

\* genscript.py: the descriptor is built in code, supported_formats is
\* "min, format"
gs_generate_pack_mcmeta(fmt, fmts, scale, files) ==
    LET removed == IF Has(files, PackMcmeta) THEN Del(files, PackMcmeta) ELSE files
        cur == IF fmt = 0 THEN 1 ELSE fmt
    IN Put(removed, PackMcmeta,
           [tok |-> "pack.mcmeta",
            format |-> cur,
            min_format |-> first_lower(sorted_formats(fmts), cur),
            max_format |-> cur,
            scale |-> scale])

\* ConfigLoader.printouts: validate_type('max_format', int) reads the key, and
\* a missing key ends the run with status 7
config_load(max_fmt) == IF max_fmt = None THEN 7 ELSE 0

------------------------------------------------------------------------------
(* ThemeEngine *)

Upper == <<"A", "B", "C", "D", "E", "F", "S", "V", "G">>
Lower == <<"a", "b", "c", "d", "e", "f", "s", "v", "g">>

\* str.lower()
lower(s) ==
    [i \in DOMAIN s |->
        IF \E n \in DOMAIN Upper : Upper[n] = s[i]
        THEN Lower[CHOOSE n \in DOMAIN Upper : Upper[n] = s[i]]
        ELSE s[i]]

\* old in s
RECURSIVE contains(_, _)
contains(s, old) ==
    IF Len(s) < Len(old) THEN FALSE
    ELSE startswith(s, old) \/ contains(Tail(s), old)

\* s.replace(old, new) for a non-empty old: every occurrence, left to right
RECURSIVE replace(_, _, _)
replace(s, old, new) ==
    IF s = <<>> THEN <<>>
    ELSE IF startswith(s, old)
    THEN new \o replace(SubSeq(s, Len(old) + 1, Len(s)), old, new)
    ELSE <<Head(s)>> \o replace(Tail(s), old, new)

\* new_color_map as it would be with the baseline colour itself as the search key
RECURSIVE new_color_map_cased(_, _, _, _)
new_color_map_cased(items, theme_colors, svg_content, acc) ==
    IF items = <<>> THEN acc
    ELSE LET e == Head(items)
         IN new_color_map_cased(
                Tail(items), theme_colors, svg_content,
                IF Has(theme_colors, e.k) /\ contains(svg_content, e.v)
                THEN Put(acc, e.v, lower(Val(theme_colors, e.k)))
                ELSE Put(acc, e.v, lower(e.v)))

\* the loop over config.color_map.items() that fills new_color_map
RECURSIVE new_color_map(_, _, _, _)
new_color_map(items, theme_colors, svg_content, acc) ==
    IF items = <<>> THEN acc
    ELSE LET e == Head(items)
         IN new_color_map(
                Tail(items), theme_colors, svg_content,
                IF Has(theme_colors, e.k) /\ contains(svg_content, e.v)
                THEN Put(acc, lower(e.v), lower(Val(theme_colors, e.k)))
                ELSE Put(acc, lower(e.v), lower(e.v)))

\* the loop over new_color_map.items() that replaces the colours
RECURSIVE replace_colors(_, _)
replace_colors(themed_svg, items) ==
    IF items = <<>> THEN themed_svg
    ELSE replace_colors(replace(themed_svg, Head(items).k, Head(items).v), Tail(items))

\* the theming of one SVG's content
themed(svg_content, colors, theme_colors) ==
    replace_colors(svg_content, new_color_map(colors, theme_colors, svg_content, EmptyDict))

\* the loop of apply_theme over list(src_files.keys()); r is [src, errors,
\* exit, raised].  A content with tok "bad" is bytes that are no UTF-8:
\* decode raises, outside the try that wraps the work on one file, and the
\* exception ends the loop
RECURSIVE theme_files(_, _, _, _)
theme_files(keys, r, colors, theme_colors) ==
    IF keys = <<>> \/ r.raised THEN r
    ELSE LET rel_path == Head(keys)
             data == Val(r.src, rel_path)
         IN theme_files(
                Tail(keys),
                IF ~endswith(lower(rel_path), DotSvg) THEN r
                ELSE IF data.tok = "bad" THEN [r EXCEPT !.raised = TRUE]
                ELSE [r EXCEPT !.src =
                         Put(@, rel_path,
                             [data EXCEPT !.text = themed(@, colors, theme_colors)])],
                colors, theme_colors)

\* apply_theme of modules/theme.py; env tells whether the theme directory and
\* the theme file exist.  exit is the status the run ends with (record_crit)
apply_theme(files, theme, colors, theme_colors, env) ==
    LET start == [src |-> files, errors |-> <<>>, exit |-> 0, raised |-> FALSE]
        done == theme_files(KeyList(files), start, colors, theme_colors)
    IN IF ~theme THEN start
       ELSE IF ~env.theme_dir THEN [start EXCEPT !.exit = 31]
       ELSE IF ~env.theme_file THEN [start EXCEPT !.exit = 32]
       ELSE IF done.raised THEN [done EXCEPT !.exit = 33]
       ELSE done

\* apply_theme of genscript.py: record_error with a code ends the run, with
\* None it only tallies
gs_apply_theme(files, theme, colors, theme_colors, env) ==
    LET start == [src |-> files, errors |-> <<>>, exit |-> 0, raised |-> FALSE]
        done == theme_files(KeyList(files), start, colors, theme_colors)
    IN IF ~theme THEN start
       ELSE IF ~env.theme_dir THEN [start EXCEPT !.exit = 31]
       ELSE IF ~env.theme_file THEN [start EXCEPT !.exit = 32]
       ELSE IF done.raised
       THEN [done EXCEPT !.errors = Append(@, "theme_processing_error")]
       ELSE done

------------------------------------------------------------------------------
(* Rasterizer: binary64 arithmetic *)

\* A positive float is [m, e]: m the 53 bits of the significand, highest first,
\* and e the exponent of its lowest bit, so that the value is m * 2^e.

MantissaBits == 53      \* bits of a binary64 significand

\* the binary digits of a positive integer, highest first
RECURSIVE Bits(_)
Bits(n) == IF n = 0 THEN <<>> ELSE Append(Bits(n \div 2), n % 2)

\* the integer a short string of binary digits denotes
RECURSIVE FromBits(_)
FromBits(bits) ==
    IF bits = <<>> THEN 0
    ELSE 2 * FromBits(SubSeq(bits, 1, Len(bits) - 1)) + bits[Len(bits)]

\* the arithmetic goes eight binary digits at a time
ChunkBits == 8

ChunkBase == 2 ^ ChunkBits

\* the eight binary digits of n < 256, highest first
chunk(n) == [i \in 1..ChunkBits |-> (n \div (2 ^ (ChunkBits - i))) % 2]

\* digits without their leading zeros
strip(bits) ==
    LET ones == {i \in DOMAIN bits : bits[i] = 1}
    IN IF ones = {} THEN <<>>
       ELSE SubSeq(bits, CHOOSE i \in ones : \A j \in ones : i <= j, Len(bits))

\* bits + 1, the same length, for digits that are not all ones
increment(bits) ==
    LET zeros == {i \in DOMAIN bits : bits[i] = 0}
        last == CHOOSE i \in zeros : \A j \in zeros : j <= i
    IN [i \in DOMAIN bits |-> IF i < last THEN bits[i] ELSE IF i = last THEN 1 ELSE 0]

\* round to nearest, ties to even: bits are the leading digits of the exact
\* value (at least 54 of them), e the exponent of the 53rd, sticky tells
\* whether anything non-zero lies below the digits given
round_nearest_even(bits, e, sticky) ==
    LET m == SubSeq(bits, 1, MantissaBits)
        guard == bits[MantissaBits + 1]
        below == sticky \/ \E i \in (MantissaBits + 2)..Len(bits) : bits[i] = 1
        up == guard = 1 /\ (below \/ m[MantissaBits] = 1)
    IN IF ~up THEN [m |-> m, e |-> e]
       ELSE IF \A i \in DOMAIN m : m[i] = 1
       THEN [m |-> [i \in DOMAIN m |-> IF i = 1 THEN 1 ELSE 0], e |-> e + 1]
       ELSE [m |-> increment(m), e |-> e]

\* long division of rem / divisor below the binary point: the next count
\* chunks of digits, and the remainder left
RECURSIVE fraction_bits(_, _, _)
fraction_bits(rem, divisor, count) ==
    IF count = 0 THEN [bits |-> <<>>, rem |-> rem]
    ELSE LET rest == fraction_bits((rem * ChunkBase) % divisor, divisor, count - 1)
         IN [bits |-> chunk((rem * ChunkBase) \div divisor) \o rest.bits,
             rem |-> rest.rem]

\* chunks of digits of a quotient below the binary point: enough for 54
\* significant digits of any quotient from 2^-18 up
FractionChunks == 9

\* a / b for integers a, b >= 1, as the float division a / float(b) gives it
float_div(a, b) ==
    LET whole == Bits(a \div b)
        below == fraction_bits(a % b, b, FractionChunks)
        digits == whole \o below.bits
        lead == Len(digits) - Len(strip(digits))
    IN round_nearest_even(strip(digits), Len(whole) - (lead + MantissaBits),
                          below.rem # 0)

\* w times the integer with these chunks of digits, lowest chunk first: the
\* digits of the product, highest first
RECURSIVE times_small(_, _, _)
times_small(chunks, w, carry) ==
    IF chunks = <<>> THEN Bits(carry)
    ELSE LET x == w * FromBits(Head(chunks)) + carry
         IN times_small(Tail(chunks), w, x \div ChunkBase) \o chunk(x % ChunkBase)

\* the digits of a significand in chunks, lowest chunk first
chunks_of(m) ==
    LET padded == [i \in 1..(ChunkBits - (Len(m) % ChunkBits)) |-> 0] \o m
        n == Len(padded) \div ChunkBits
    IN [c \in 1..n |-> SubSeq(padded, (n - c) * ChunkBits + 1, (n - c + 1) * ChunkBits)]

\* w * x for an integer w >= 1 and a float x, as the float product gives it
float_mul(w, x) ==
    LET product == strip(times_small(chunks_of(x.m), w, 0))
    IN round_nearest_even(Append(product, 0), x.e + Len(product) - MantissaBits, FALSE)

\* int(x) for a positive float x below 2^31
float_int(x) ==
    IF MantissaBits + x.e <= 0 THEN 0
    ELSE FromBits(SubSeq(x.m, 1, MantissaBits + x.e))

------------------------------------------------------------------------------
(* Rasterizer *)

\* An SVG's content is [tok, width, height, renders]; a declared dimension is
\* [n, unit] with unit "" or "pt", "px" for a unit float() rejects, and "none"
\* for an attribute the document does not have (root.get gives None); renders
\* tells whether the backend gives PNG data for the document.

FallbackSize == 1024

ReferenceDpi == 96

\* record_err as it would be if it never ended the run
record_err_tally(r, code, err_type, exit_error) ==
    [r EXCEPT !.errors = Append(@, err_type)]

\* record_err of modules/error.py on the run state r: the tally, and the exit
\* when exit_error is set
record_err(r, code, err_type, exit_error) ==
    [r EXCEPT !.errors = Append(@, err_type),
              !.exit = IF exit_error THEN code ELSE 0]

\* record_error(None, ...) of genscript.py
gs_record_error(r, err_type) == [r EXCEPT !.errors = Append(@, err_type)]

\* the two assignments that parse width and height
dimensions(content) ==
    IF content.width.unit = "none" THEN [kind |-> "AttributeError"]
    ELSE IF content.width.unit = "px" THEN [kind |-> "ValueError"]
    ELSE IF content.height.unit = "none" THEN [kind |-> "AttributeError"]
    ELSE IF content.height.unit = "px" THEN [kind |-> "ValueError"]
    ELSE [kind |-> "ok", width |-> content.width.n, height |-> content.height.n]

\* int(dimension * scale_factor) with scale_factor = dpi / 96.0
target(dimension, dpi) == float_int(float_mul(dimension, float_div(dpi, ReferenceDpi)))

\* svg2png's output for the requested size; empty when the backend gives nothing
png_data(width, height, empty) ==
    IF empty THEN [tok |-> "empty"]
    ELSE [tok |-> "png", width |-> width, height |-> height]

\* rel_path[:-4] + ".png"
png_name(rel_path) == SubSeq(rel_path, 1, Len(rel_path) - 4) \o DotPng

\* gen_images[dpi][name] = data on a defaultdict(dict)
put_image(images, dpi, name, data) ==
    IF dpi \in DOMAIN images
    THEN [images EXCEPT ![dpi] = Put(@, name, data)]
    ELSE images @@ (dpi :> Put(EmptyDict, name, data))

\* the loop over scales.items() for one SVG; r is [src, img, errors, exit,
\* raised], gs tells which revision's error calls apply
RECURSIVE convert_scales(_, _, _, _, _)
convert_scales(r, rel_path, scales, exit_error, gs) ==
    IF scales = <<>> \/ r.exit # 0 \/ r.raised THEN r
    ELSE LET dpi == Head(scales).v
             dim == dimensions(Val(r.src, rel_path))
             empty == ~Val(r.src, rel_path).renders
             r1 == IF dim.kind = "ValueError"
                   THEN IF gs THEN gs_record_error(r, "svg_dimensions_warning")
                        ELSE record_err(r, 43, "svg_bad_dimensions", exit_error)
                   ELSE r
             width == IF dim.kind = "ok" THEN dim.width ELSE FallbackSize
             height == IF dim.kind = "ok" THEN dim.height ELSE FallbackSize
             r2 == IF empty
                   THEN IF gs THEN gs_record_error(r1, "no_png_data")
                        ELSE record_err(r1, 43, "no_png_data", exit_error)
                   ELSE r1
             r3 == [r2 EXCEPT !.img = put_image(@, dpi, png_name(rel_path),
                                                png_data(target(width, dpi),
                                                         target(height, dpi), empty))]
         IN IF dim.kind = "AttributeError" THEN [r EXCEPT !.raised = TRUE]
            ELSE IF r1.exit # 0 THEN r1
            ELSE IF r2.exit # 0 THEN r2
            ELSE convert_scales(r3, rel_path, Tail(scales), exit_error, gs)

\* the loop over list(src_files.keys())
RECURSIVE convert_files(_, _, _, _, _)
convert_files(r, keys, scales, exit_error, gs) ==
    IF keys = <<>> \/ r.exit # 0 THEN r
    ELSE LET rel_path == Head(keys)
             done == convert_scales(r, rel_path, scales, exit_error, gs)
             next == IF ~endswith(lower(rel_path), DotSvg) THEN r
                     ELSE IF done.raised
                     THEN IF gs
                          THEN gs_record_error([done EXCEPT !.raised = FALSE],
                                               "svg_processing_error")
                          ELSE record_err([done EXCEPT !.raised = FALSE], 41,
                                          "svg_processing_error", exit_error)
                     ELSE IF done.exit # 0 THEN done
                     ELSE [done EXCEPT !.src = Del(@, rel_path)]
         IN convert_files(next, Tail(keys), scales, exit_error, gs)

NoImages == <<>>

\* convert_svg_to_png of modules/svg2png.py: the selection of the scales, then
\* the loop
convert_svg_to_png(files, declared, scale, exit_error) ==
    LET start == [src |-> files, img |-> NoImages, errors |-> <<>>, exit |-> 0,
                  raised |-> FALSE]
        selected == SelectSeq(declared, LAMBDA e : e.k = scale)
    IN IF scale # None /\ scale # 0 /\ selected = <<>>
       THEN [start EXCEPT !.errors = <<"scale_not_valid">>, !.exit = 44]
       ELSE convert_files(start, KeyList(files),
                          IF scale # None /\ scale # 0 THEN selected ELSE declared,
                          exit_error, FALSE)

\* convert_svg_to_png of genscript.py
gs_convert_svg_to_png(files, dpi_values_to_process) ==
    convert_files([src |-> files, img |-> NoImages, errors |-> <<>>, exit |-> 0,
                   raised |-> FALSE],
                  KeyList(files), dpi_values_to_process, FALSE, TRUE)

------------------------------------------------------------------------------
(* ResolutionTagger: ProxyLoader *)

\* sizes as it would be with one more size allowed
sizes_wider == {7, 32, 64, 128}

sizes == {32, 64, 128}

Digits == {"0", "1", "2", "3", "4", "5", "6", "7", "8", "9"}

\* the search pattern of the model: the tag character followed by the captured
\* digits, TagChar(\d+); search_ext appends (?:\.|\/)
TagChar == "@"

DigitValue(c) == (CHOOSE i \in 1..10 : DigitChar[i] = c) - 1

\* int(match.group(1))
RECURSIVE to_int(_)
to_int(ds) ==
    IF ds = <<>> THEN 0
    ELSE to_int(SubSeq(ds, 1, Len(ds) - 1)) * 10 + DigitValue(ds[Len(ds)])

\* length of the run of digits of s that begins at position i (1-based)
RECURSIVE digit_run(_, _)
digit_run(s, i) ==
    IF i <= Len(s) /\ s[i] \in Digits THEN 1 + digit_run(s, i + 1) ELSE 0

\* search_ext matched at position i of s: the tag, one or more digits (all of
\* the run: after fewer digits the next character is a digit, not a separator),
\* then "." or "/".  Gives the position after the match, 0 when there is none.
match_at(s, i) ==
    IF i <= Len(s) /\ s[i] = TagChar
    THEN LET n == digit_run(s, i + 1)
             e == i + n + 1
         IN IF n >= 1 /\ e <= Len(s) /\ s[e] \in {".", "/"} THEN e + 1 ELSE 0
    ELSE 0

\* finditer as it would be if the search stopped at the first match
RECURSIVE finditer_first(_, _)
finditer_first(s, i) ==
    IF i > Len(s) THEN <<>>
    ELSE IF match_at(s, i) = 0 THEN finditer_first(s, i + 1)
    ELSE <<[start |-> i - 1, end |-> match_at(s, i) - 1,
            group0 |-> SubSeq(s, i, match_at(s, i) - 1),
            group1 |-> SubSeq(s, i + 1, match_at(s, i) - 2)]>>

\* list(re.finditer(search_ext, rel_path)) from position i on: the matches left
\* to right, not overlapping; start and end are Python's 0-based span
RECURSIVE finditer(_, _)
finditer(s, i) ==
    IF i > Len(s) THEN <<>>
    ELSE IF match_at(s, i) = 0 THEN finditer(s, i + 1)
    ELSE LET e == match_at(s, i)
         IN <<[start |-> i - 1, end |-> e - 1,
               group0 |-> SubSeq(s, i, e - 1),
               group1 |-> SubSeq(s, i + 1, e - 2)]>> \o finditer(s, e)

\* replace as it would be if it left the string as it is
remove_nothing(s, old) == s

\* s.replace(old, ""), every occurrence, left to right
RECURSIVE remove_all(_, _)
remove_all(s, old) ==
    IF s = <<>> THEN <<>>
    ELSE IF startswith(s, old) THEN remove_all(SubSeq(s, Len(old) + 1, Len(s)), old)
    ELSE <<Head(s)>> \o remove_all(Tail(s), old)

\* the keys of self.errors
ErrorKinds ==
    { <<"T","o","o","M","a","n","y","R","e","s","o","l","u","t","i","o","n","s",
        "W","a","r","n","i","n","g">>,
      <<"I","n","v","a","l","i","d","R","e","s","o","l","u","t","i","o","n",
        "W","a","r","n","i","n","g">>,
      <<"I","n","v","a","l","i","d","R","e","s","o","l","u","t","i","o","n",
        "D","i","r","e","c","t","o","r","y","W","a","r","n","i","n","g">> }

\* the loop for i in range(match.start(0), -1, -1) that finds the directory name
RECURSIVE directory_match(_, _, _)
directory_match(rel_path, i, end) ==
    IF i < 0 THEN <<>>
    ELSE IF rel_path[i + 1] = "/" THEN SubSeq(rel_path, i + 2, end)
    ELSE directory_match(rel_path, i - 1, end)

\* Python's s[i] for an index that may be -1
char_at(s, i) == IF i < 0 THEN s[Len(s) + i + 1] ELSE s[i + 1]

EmptyTag == [proxy |-> <<>>, too_many |-> <<>>, invalid |-> <<>>, invalid_dir |-> <<>>]

\* one pass of the loop over sources.keys(); t holds proxy_dict and the three
\* dicts of self.errors
tag_path(t, rel_path) ==
    LET matches == finditer(rel_path, 1)
    IN IF Len(matches) > 1
       THEN [t EXCEPT !.too_many = Put(@, rel_path, [count |-> Len(matches)])]
       ELSE IF Len(matches) = 1
       THEN LET match == matches[1]
                size == to_int(match.group1)
                start_path == SubSeq(rel_path, 1, match.end)
                original_path == remove_all(rel_path, match.group0)
                inner == IF Has(t.proxy, original_path)
                         THEN Val(t.proxy, original_path) ELSE <<>>
            IN IF size \notin sizes
               THEN [t EXCEPT !.invalid = Put(@, rel_path, [size |-> size])]
               ELSE IF /\ "/" \in {match.group0[i] : i \in DOMAIN match.group0}
                       /\ match.start # 1
                       /\ char_at(rel_path, match.start - 1) # "/"
               THEN IF start_path \in ErrorKinds
                    THEN [t EXCEPT !.invalid_dir =
                             Put(@, start_path,
                                 [Val(@, start_path) EXCEPT !.filecount = @ + 1])]
                    ELSE [t EXCEPT !.invalid_dir =
                             Put(@, start_path,
                                 [filecount |-> 1, rel_path |-> rel_path,
                                  matched_dir |-> directory_match(rel_path, match.start,
                                                                  match.end)])]
               ELSE [t EXCEPT !.proxy = Put(@, original_path, Put(inner, size, rel_path))]
       ELSE IF ~Has(t.proxy, rel_path)
            THEN [t EXCEPT !.proxy = Put(@, rel_path, Put(<<>>, 0, rel_path))]
            ELSE IF ~Has(Val(t.proxy, rel_path), 0)
                 THEN [t EXCEPT !.proxy =
                          Put(@, rel_path, Put(Val(@, rel_path), 0, rel_path))]
                 ELSE t

\* ProxyLoader.__init__ over the source paths in iteration order
RECURSIVE ProxyLoader(_, _)
ProxyLoader(keys, t) ==
    IF keys = <<>> THEN t
    ELSE ProxyLoader(Tail(keys), tag_path(t, Head(keys)))

------------------------------------------------------------------------------
(* Inputs: source trees and configurations *)

MaxFiles == 3       \* asset entries of a source tree besides the manifests
MaxBitmaps == 2     \* entries of a DPI bucket

A_X == <<"a", "/", "x", ".", "p", "n", "g">>
A_I == <<"a", "/", "i", ".", "p", "n", "g">>
AB == <<"a", "b", ".", "p", "n", "g">>
B_Z == <<"b", "/", "z", ".", "p", "n", "g">>

Under(fmt, path) == inc_dir(fmt) \o path

\* the injective sequences over a set
Perms(S) ==
    {q \in [1..Cardinality(S) -> S] : \A i, j \in 1..Cardinality(S) : q[i] = q[j] => i = j}

Lists(pool, max) == UNION {Perms(S) : S \in {T \in SUBSET pool : Cardinality(T) <= max}}

has_slash(path) == \E i \in DOMAIN path : path[i] = "/"

RECURSIVE top_dir(_)
top_dir(path) ==
    IF path = <<>> \/ Head(path) = "/" THEN <<>> ELSE <<Head(path)>> \o top_dir(Tail(path))

\* os.walk lists a directory's files before it descends, and one subdirectory
\* after the other, in an order the filesystem chooses
is_walk_order(keys) ==
    /\ \A i, j \in DOMAIN keys : i < j /\ has_slash(keys[i]) => has_slash(keys[j])
    /\ \A i, j, m \in DOMAIN keys :
          i < j /\ j < m /\ top_dir(keys[i]) = top_dir(keys[m])
              => top_dir(keys[j]) = top_dir(keys[i])

AssetPool ==
    { [k |-> A_X, v |-> Raw("generic")],
      [k |-> Under(5, A_X), v |-> Raw("override5")],
      [k |-> Under(3, A_X), v |-> Raw("override3")],
      [k |-> Under(5, Under(5, A_X)), v |-> Raw("nested5")],
      [k |-> AB, v |-> Raw("ab")] }

BitmapPool ==
    { [k |-> A_I, v |-> Raw("bitmap")],
      [k |-> Under(5, A_I), v |-> Raw("bitmap5")],
      [k |-> B_Z, v |-> Raw("bitmap_z")] }

\* the manifest a source tree holds for a tier, if any
Manifests(fmt, tokens) ==
    {<<>>} \cup {<<[k |-> manifest_path(fmt), v |-> Raw(tok)]>> : tok \in tokens}

\* source trees as scan_src_files loads them: root files first
Trees(tokens5, tokens3, pool) ==
    {t \in {m5 \o m3 \o assets :
                m5 \in Manifests(5, tokens5), m3 \in Manifests(3, tokens3),
                assets \in Lists(pool, MaxFiles)} :
        is_walk_order(KeyList(t))}

\* the ResolutionIndex as convert_svg_to_png leaves it for the given DPIs
Indexes(dpis, pool) ==
    [dpis -> Lists(pool, MaxBitmaps)]

TierKeys == {1, 3, 5}

Labels(S) == [S -> {"label"}]

TierTables(keys) == UNION {Labels(S) : S \in (SUBSET keys) \ {{}}}

Scale1 == <<[k |-> 1, v |-> 96]>>

DefaultEnv ==
    [dry_run |-> FALSE, makedirs_ok |-> TRUE, license_exists |-> FALSE,
     license_readable |-> FALSE]

------------------------------------------------------------------------------
(* The run: main of genscript.py, from the tier loop on *)

IdleTagger == sources = <<>> /\ tagged = EmptyTag

Modules == <<color_map, theme_color_map, sorted_scales, flags, loader>>

NoFlags == [theme |-> FALSE, scale |-> None, exit_error |-> FALSE]

NoLoader ==
    [files |-> <<>>, filecount |-> 0, filetypes |-> <<>>, initial_load |-> FALSE,
     readonly |-> FALSE]

IdleModules ==
    /\ color_map = <<>>
    /\ theme_color_map = <<>>
    /\ sorted_scales = <<>>
    /\ flags = NoFlags
    /\ loader = NoLoader

Init ==
    /\ pc = "loop"
    /\ formats \in TierTables(TierKeys)
    /\ max_format = 0
    /\ svg_process_toggle \in BOOLEAN
    /\ dpi_values = IF svg_process_toggle THEN Scale1 ELSE <<>>
    /\ src_files \in Trees({"m_file", "m_dir", "m_tier"}, {"m_file"},
                           AssetPool \ {[k |-> AB, v |-> Raw("ab")]})
    /\ gen_images \in IF svg_process_toggle
                      THEN Indexes({96}, {[k |-> A_I, v |-> Raw("bitmap")],
                                          [k |-> Under(5, A_I), v |-> Raw("bitmap5")]})
                      ELSE {<<>>}
    /\ allowed_paths = << <<"a">>, PackMcmeta >>
    /\ license_file = <<>>
    /\ args \in [format : {None} \cup DOMAIN formats, dry_run : {FALSE}]
    /\ cur_fmt = None
    /\ cur_scale = None
    /\ todo = sorted_reverse(DOMAIN formats)
    /\ scales_todo = <<>>
    /\ zips = <<>>
    /\ errors = <<>>
    /\ exit_code = 0
    /\ scanned = [src |-> src_files, img |-> gen_images]
    /\ pre_src = src_files
    /\ pre_img = gen_images
    /\ left_src = src_files
    /\ left_img = gen_images
    /\ visited = <<>>
    /\ IdleTagger
    /\ IdleModules

Config == <<formats, max_format, dpi_values, svg_process_toggle, allowed_paths,
            license_file, args, scanned>>

Tagger == <<sources, tagged>>

\* NextFormat as it would be if every tier started from a fresh copy of the source
NextFormatFresh ==
    /\ pc = "loop"
    /\ todo # <<>>
    /\ IF args.format # None /\ Head(todo) < args.format
       THEN /\ pc' = "done"
            /\ UNCHANGED <<cur_fmt, todo, visited, src_files, gen_images>>
       ELSE /\ pc' = "exclusions"
            /\ cur_fmt' = Head(todo)
            /\ todo' = Tail(todo)
            /\ visited' = Append(visited, Head(todo))
            /\ src_files' = scanned.src
            /\ gen_images' = scanned.img
    /\ UNCHANGED <<cur_scale, scales_todo, zips, errors,
                   exit_code, pre_src, pre_img, left_src, left_img, Config, Tagger, Modules>>

\* NextFormat as it would be if the tiers above --format were passed over
\* without their exclusions and inclusions
NextFormatDirect ==
    /\ pc = "loop"
    /\ todo # <<>>
    /\ IF args.format # None /\ Head(todo) < args.format
       THEN /\ pc' = "done"
            /\ UNCHANGED <<cur_fmt, todo, visited>>
       ELSE IF args.format # None /\ Head(todo) > args.format
       THEN /\ pc' = "loop"
            /\ todo' = Tail(todo)
            /\ UNCHANGED <<cur_fmt, visited>>
       ELSE /\ pc' = "exclusions"
            /\ cur_fmt' = Head(todo)
            /\ todo' = Tail(todo)
            /\ visited' = Append(visited, Head(todo))
    /\ UNCHANGED <<src_files, gen_images, cur_scale, scales_todo, zips, errors,
                   exit_code, pre_src, pre_img, left_src, left_img, Config, Tagger, Modules>>

\* the head of the for loop over sorted(formats.keys(), reverse=True), with the
\* break for the tiers below --format
NextFormat ==
    /\ pc = "loop"
    /\ todo # <<>>
    /\ IF args.format # None /\ Head(todo) < args.format
       THEN /\ pc' = "done"
            /\ UNCHANGED <<cur_fmt, todo, visited>>
       ELSE /\ pc' = "exclusions"
            /\ cur_fmt' = Head(todo)
            /\ todo' = Tail(todo)
            /\ visited' = Append(visited, Head(todo))
    /\ UNCHANGED <<src_files, gen_images, cur_scale, scales_todo, zips, errors,
                   exit_code, pre_src, pre_img, left_src, left_img, Config, Tagger, Modules>>

\* the loop is exhausted: print_summary and the end of main
FormatsDone ==
    /\ pc = "loop"
    /\ todo = <<>>
    /\ pc' = "done"
    /\ UNCHANGED <<src_files, gen_images, cur_fmt, cur_scale, todo, scales_todo,
                   zips, errors, exit_code, pre_src, pre_img, left_src, left_img,
                   visited, Config, Tagger, Modules>>

\* src_files, gen_images = apply_exclusions(...)
Exclusions ==
    /\ pc = "exclusions"
    /\ LET r == gs_apply_exclusions(cur_fmt, src_files, gen_images)
       IN /\ pc' = IF r.raised THEN "raised" ELSE "inclusions"
          /\ src_files' = r.src
          /\ gen_images' = r.img
    /\ pre_src' = src_files
    /\ pre_img' = gen_images
    /\ UNCHANGED <<cur_fmt, cur_scale, todo, scales_todo, zips, errors, exit_code,
                   left_src, left_img, visited, Config, Tagger, Modules>>

\* src_files, gen_images = apply_inclusions(...), then the continue for the
\* tiers above --format
Inclusions ==
    /\ pc = "inclusions"
    /\ LET r == gs_apply_inclusions(cur_fmt, src_files, gen_images)
           skip == args.format # None /\ cur_fmt # args.format
       IN /\ src_files' = r.src
          /\ gen_images' = r.img
          /\ pc' = IF skip THEN "loop" ELSE "archive"
          /\ scales_todo' = IF skip \/ ~svg_process_toggle THEN <<>> ELSE dpi_values
          /\ left_src' = IF skip THEN r.src ELSE left_src
          /\ left_img' = IF skip THEN r.img ELSE left_img
    /\ UNCHANGED <<cur_fmt, cur_scale, todo, zips, errors, exit_code, pre_src,
                   pre_img, visited, Config, Tagger, Modules>>

\* zip_name and zip_path of main, as the pieces the f-string and os.path.join
\* put together; a label is one piece
zip_name(label, scale) ==
    <<"pack", "-", "dev", "-", label>>
        \o (IF scale = None THEN <<>> ELSE <<"-scale-">> \o Str(scale))
        \o <<".zip">>

zip_path(current_format, label, scale) ==
    <<"generated", "/">>
        \o (IF scale = None THEN <<>> ELSE Str(current_format) \o <<"/">>)
        \o zip_name(label, scale)

\* one pass of the loop over dpi_values_to_process: the descriptor, then the
\* archive of (tier, scale)
ArchiveScale ==
    /\ pc = "archive"
    /\ svg_process_toggle
    /\ scales_todo # <<>>
    /\ \E ok \in BOOLEAN :
        LET scale == Head(scales_todo).k
            dpi == Head(scales_todo).v
            store == gs_generate_pack_mcmeta(cur_fmt, formats, scale, src_files)
            r == gs_create_zip_archive(store, gen_images, scale, dpi, license_file,
                                       allowed_paths,
                                       [DefaultEnv EXCEPT !.dry_run = args.dry_run,
                                                          !.makedirs_ok = ok])
        IN /\ src_files' = store
           /\ cur_scale' = scale
           /\ scales_todo' = Tail(scales_todo)
           /\ errors' = errors \o r.z.errors
           /\ zips' = IF r.created
                      THEN Append(zips, [fmt |-> cur_fmt, scale |-> scale,
                                         written |-> r.z.written, store |-> store,
                                         index |-> gen_images,
                                         path |-> zip_path(cur_fmt, formats[cur_fmt],
                                                           scale)])
                      ELSE zips
           /\ exit_code' = r.exit
           /\ pc' = IF r.exit # 0 THEN "exit" ELSE "archive"
    /\ UNCHANGED <<gen_images, cur_fmt, todo, pre_src, pre_img, left_src, left_img,
                   visited, Config, Tagger, Modules>>

\* the scales of the tier are done: back to the head of the tier loop
ScalesDone ==
    /\ pc = "archive"
    /\ svg_process_toggle
    /\ scales_todo = <<>>
    /\ pc' = "loop"
    /\ left_src' = src_files
    /\ left_img' = gen_images
    /\ UNCHANGED <<src_files, gen_images, cur_fmt, cur_scale, todo, scales_todo,
                   zips, errors, exit_code, pre_src, pre_img, visited, Config, Tagger, Modules>>

\* regular pack creation, without scales
ArchiveRegular ==
    /\ pc = "archive"
    /\ ~svg_process_toggle
    /\ \E ok \in BOOLEAN :
        LET store == gs_generate_pack_mcmeta(cur_fmt, formats, None, src_files)
            r == gs_create_zip_archive(store, <<>>, None, None, license_file,
                                       allowed_paths,
                                       [DefaultEnv EXCEPT !.dry_run = args.dry_run,
                                                          !.makedirs_ok = ok])
        IN /\ src_files' = store
           /\ errors' = errors \o r.z.errors
           /\ zips' = IF r.created
                      THEN Append(zips, [fmt |-> cur_fmt, scale |-> None,
                                         written |-> r.z.written, store |-> store,
                                         index |-> gen_images,
                                         path |-> zip_path(cur_fmt, formats[cur_fmt],
                                                           None)])
                      ELSE zips
           /\ exit_code' = r.exit
           /\ pc' = IF r.exit # 0 THEN "exit" ELSE "loop"
           /\ left_src' = store
           /\ left_img' = gen_images
    /\ UNCHANGED <<gen_images, cur_fmt, cur_scale, todo, scales_todo, pre_src,
                   pre_img, visited, Config, Tagger, Modules>>

Next ==
    \/ NextFormat
    \/ FormatsDone
    \/ Exclusions
    \/ Inclusions
    \/ ArchiveScale
    \/ ScalesDone
    \/ ArchiveRegular

Spec == Init /\ [][Next]_vars

------------------------------------------------------------------------------
(* Properties of the run *)

WithoutMeta(d) == SelectSeq(d, LAMBDA e : e.k # PackMcmeta)

\* the state right after the current tier's inclusion, before its descriptor
PostOverlay ==
    \/ pc = "archive" /\ scales_todo = (IF svg_process_toggle THEN dpi_values ELSE <<>>)
    \/ pc = "loop" /\ cur_fmt # None /\ args.format # None /\ cur_fmt # args.format

\* the overlay of the current tier applied to what the previous tier left
OverlayOfLeft ==
    LET ex == gs_apply_exclusions(cur_fmt, left_src, left_img)
    IN gs_apply_inclusions(cur_fmt, ex.src, ex.img)

\* C1: the tiers are visited in strictly descending order of the declared keys,
\* and each tier's exclusion, inclusion and archives work on the store and index
\* the previous tier left (the source for the first tier), never on a fresh copy.
C1_TierFold ==
    /\ \A i \in DOMAIN visited :
          /\ visited[i] \in DOMAIN formats
          /\ Cardinality({f \in DOMAIN formats : f > visited[i]}) = i - 1
    /\ pc = "exclusions" => src_files = left_src /\ gen_images = left_img
    /\ pc = "inclusions" => pre_src = left_src /\ pre_img = left_img
    /\ pc = "archive" =>
          /\ WithoutMeta(src_files) = WithoutMeta(OverlayOfLeft.src)
          /\ gen_images = OverlayOfLeft.img
          /\ \A i \in DOMAIN zips :
                zips[i].fmt = cur_fmt =>
                    /\ WithoutMeta(zips[i].store) = WithoutMeta(OverlayOfLeft.src)
                    /\ zips[i].index = OverlayOfLeft.img

\* C1 witness: tier 3 is archived after tier 5 deleted the generic asset and
\* merged its override
C1_Witness ==
    /\ visited = <<5, 3>>
    /\ pc = "archive"
    /\ \E i \in DOMAIN zips : zips[i].fmt = 3
    /\ Has(scanned.src, manifest_path(5))
    /\ Has(scanned.src, A_X)
    /\ Has(scanned.src, Under(5, A_X))
    /\ ~Has(left_src, Under(5, A_X))
    /\ Val(left_src, A_X) = Raw("override5")

ManifestRules(files, fmt) ==
    LET doc == json_loads(Val(files, manifest_path(fmt)))
    IN {doc.exclusions[i] : i \in DOMAIN doc.exclusions}

\* a rule of the list covers the path: the path is the rule or lies under it
RuleCovers(rules, path) ==
    \E r \in rules :
        LET rule == normalize(r)
        IN path = rule \/ (Len(path) > Len(rule) /\ SubSeq(path, 1, Len(rule) + 1) = rule \o <<"/">>)

\* the overrides of the current tier whose generic path its manifest excludes
ExcludedOverrides ==
    IF ~Has(pre_src, manifest_path(cur_fmt)) THEN {}
    ELSE {key \in Keys(pre_src) :
            /\ startswith(key, inc_dir(cur_fmt))
            /\ RuleCovers(ManifestRules(pre_src, cur_fmt), strip_prefix(key, inc_dir(cur_fmt)))}

OverrideMerged(key) ==
    LET generic == strip_prefix(key, inc_dir(cur_fmt))
    IN /\ Has(src_files, generic)
       /\ Val(src_files, generic) = Val(pre_src, key)
       /\ ~Has(src_files, key)

\* C6 as stated: if tier t's manifest excludes P and the store holds "<t>/P",
\* then after tier t's overlay the store holds P with the override's content
\* and no "<t>/P".
C6_AsStated ==
    PostOverlay => \A key \in ExcludedOverrides : OverrideMerged(key)

\* C6 amended: the same, for the overrides "<t>/P" that no rule of the manifest
\* covers themselves and that have no entry "<t>/<t>/P" moving into their place.
C6_OverrideSurvives ==
    PostOverlay =>
        \A key \in ExcludedOverrides :
            /\ ~RuleCovers(ManifestRules(pre_src, cur_fmt), key)
            /\ ~Has(pre_src, inc_dir(cur_fmt) \o key)
            => OverrideMerged(key)

\* C6 witness: tier 5's manifest excluded the generic a/x.png, which was in the
\* store, and the override 5/a/x.png has taken its place
C6_Witness ==
    /\ PostOverlay
    /\ cur_fmt = 5
    /\ Under(5, A_X) \in ExcludedOverrides
    /\ ~RuleCovers(ManifestRules(pre_src, 5), Under(5, A_X))
    /\ Has(pre_src, A_X)
    /\ Val(src_files, A_X) = Raw("override5")
    /\ ~Has(src_files, Under(5, A_X))

------------------------------------------------------------------------------
(* The overlay operations on their own *)

IdleRun ==
    /\ formats = [f \in TierKeys |-> "label"]
    /\ max_format = 0
    /\ dpi_values = <<>>
    /\ svg_process_toggle = FALSE
    /\ allowed_paths = <<>>
    /\ license_file = <<>>
    /\ args = [format |-> None, dry_run |-> FALSE]
    /\ cur_scale = None
    /\ todo = <<>>
    /\ scales_todo = <<>>
    /\ zips = <<>>
    /\ errors = <<>>
    /\ exit_code = 0
    /\ visited = <<>>

InitOverlay ==
    /\ pc = "overlay"
    /\ cur_fmt \in {3, 5}
    /\ src_files \in Trees({"m_dir", "m_svg", "m_none"}, {},
                           { [k |-> A_X, v |-> Raw("generic")],
                             [k |-> Under(5, A_X), v |-> Raw("override5")],
                             [k |-> AB, v |-> Raw("ab")] })
    /\ gen_images \in Indexes({96, 192}, BitmapPool)
    /\ scanned = [src |-> src_files, img |-> gen_images]
    /\ pre_src = src_files
    /\ pre_img = gen_images
    /\ left_src = src_files
    /\ left_img = gen_images
    /\ IdleRun
    /\ IdleTagger
    /\ IdleModules

Run == <<formats, max_format, dpi_values, svg_process_toggle, allowed_paths,
         license_file, args, cur_scale, todo, scales_todo, zips, errors,
         exit_code, visited, scanned, left_src, left_img>>

\* modules/exclusion.py on the store and index drawn
ApplyExclusions ==
    /\ pc = "overlay"
    /\ LET r == apply_exclusions(cur_fmt, src_files, gen_images)
       IN /\ pc' = IF r.raised THEN "raised" ELSE "excluded"
          /\ src_files' = r.src
          /\ gen_images' = r.img
    /\ pre_src' = src_files
    /\ pre_img' = gen_images
    /\ UNCHANGED <<cur_fmt, Run, Tagger, Modules>>

\* modules/inclusion.py on the store and index drawn
ApplyInclusions ==
    /\ pc = "overlay"
    /\ LET r == apply_inclusions(cur_fmt, src_files, gen_images)
       IN /\ pc' = "included"
          /\ src_files' = r.src
          /\ gen_images' = r.img
    /\ pre_src' = src_files
    /\ pre_img' = gen_images
    /\ UNCHANGED <<cur_fmt, Run, Tagger, Modules>>

\* apply_inclusions of genscript.py on the store and index drawn
GsApplyInclusions ==
    /\ pc = "overlay"
    /\ LET r == gs_apply_inclusions(cur_fmt, src_files, gen_images)
       IN /\ pc' = "gs_included"
          /\ src_files' = r.src
          /\ gen_images' = r.img
    /\ pre_src' = src_files
    /\ pre_img' = gen_images
    /\ UNCHANGED <<cur_fmt, Run, Tagger, Modules>>

NextOverlay ==
    \/ ApplyExclusions
    \/ ApplyInclusions
    \/ GsApplyInclusions

SpecOverlay == InitOverlay /\ [][NextOverlay]_vars

\* backslashes to "/", then the trailing "/"s trimmed
Normalized(path) ==
    LET slashed == [i \in DOMAIN path |-> IF path[i] = "\\" THEN "/" ELSE path[i]]
        keep == {n \in 0..Len(path) : n = 0 \/ slashed[n] # "/"}
    IN SubSeq(slashed, 1, CHOOSE n \in keep : \A m \in keep : m <= n)

\* the path is the prefix, or begins with the prefix followed by "/"
UnderPrefix(path, prefix) ==
    \/ path = prefix
    \/ /\ Len(path) > Len(prefix)
       /\ \A i \in 1..Len(prefix) : path[i] = prefix[i]
       /\ path[Len(prefix) + 1] = "/"

\* a trailing ".svg" rewritten to ".png"
AsBitmap(prefix) ==
    IF Len(prefix) >= 4 /\ SubSeq(prefix, Len(prefix) - 3, Len(prefix)) = DotSvg
    THEN SubSeq(prefix, 1, Len(prefix) - 4) \o DotPng
    ELSE prefix

StoreExcluded(path, rules) ==
    \E r \in rules : UnderPrefix(Normalized(path), Normalized(r))

BitmapExcluded(path, rules) ==
    \E r \in rules : UnderPrefix(Normalized(path), AsBitmap(Normalized(r)))

\* C4: with the tier's manifest present, apply_exclusions deletes exactly the
\* store entries whose normalized path is a normalized exclusion prefix or lies
\* under one, and from every DPI bucket exactly the bitmaps that pass the test
\* against the prefix with .svg rewritten to .png; all other entries keep path,
\* content and order; without a manifest both maps come back unchanged.
C4_ExactExclusion ==
    pc = "excluded" =>
        IF ~Has(pre_src, manifest_path(cur_fmt))
        THEN src_files = pre_src /\ gen_images = pre_img
        ELSE LET rules == ManifestRules(pre_src, cur_fmt)
             IN /\ src_files = SelectSeq(pre_src, LAMBDA e : ~StoreExcluded(e.k, rules))
                /\ DOMAIN gen_images = DOMAIN pre_img
                /\ \A dpi \in DOMAIN pre_img :
                      gen_images[dpi] =
                          SelectSeq(pre_img[dpi], LAMBDA e : ~BitmapExcluded(e.k, rules))

\* C4 witness: a manifest was applied that deleted a store entry and a bitmap
\* and kept another store entry besides the manifest
C4_Witness ==
    /\ pc = "excluded"
    /\ Has(pre_src, manifest_path(cur_fmt))
    /\ Len(src_files) < Len(pre_src)
    /\ Len(src_files) >= 2
    /\ \E dpi \in DOMAIN pre_img :
          Len(gen_images[dpi]) < Len(pre_img[dpi]) /\ gen_images[dpi] # <<>>

Prefixed(d, fmt) == {key \in Keys(d) : startswith(key, inc_dir(fmt))}

\* the entries under "<t>/" of one map have moved to their unprefixed paths,
\* replacing what was there, and the other entries are as they were
Moved(before, after, fmt) ==
    IF Prefixed(before, fmt) = {}
    THEN AsMap(after) = AsMap(before)
    ELSE /\ \A key \in Prefixed(before, fmt) :
               /\ Has(after, strip_prefix(key, inc_dir(fmt)))
               /\ Val(after, strip_prefix(key, inc_dir(fmt))) = Val(before, key)
               /\ ~Has(after, key)
         /\ \A key \in Keys(before) \ Prefixed(before, fmt) :
               (\A o \in Prefixed(before, fmt) : strip_prefix(o, inc_dir(fmt)) # key)
                   => Has(after, key) /\ Val(after, key) = Val(before, key)
         /\ Keys(after) \subseteq
               (Keys(before) \ Prefixed(before, fmt))
                   \cup {strip_prefix(o, inc_dir(fmt)) : o \in Prefixed(before, fmt)}

\* C5: apply_inclusions moves every entry under "<t>/" to the path with the
\* prefix stripped, in the store and in every DPI bucket: the unprefixed path
\* then holds the override's content whatever the order of the entries, the
\* prefixed entry is gone, and the other entries are unchanged.
C5_InclusionMoves ==
    pc \in {"included", "gs_included"} =>
        /\ Moved(pre_src, src_files, cur_fmt)
        /\ \A dpi \in DOMAIN pre_img :
              IF dpi \in DOMAIN gen_images
              THEN Moved(pre_img[dpi], gen_images[dpi], cur_fmt)
              ELSE pre_img[dpi] = <<>>

------------------------------------------------------------------------------
(* ArchiveAssembler on its own *)

Icon1 == scale_icon(1)
O_B == <<"o", "/", "b", ".", "p", "n", "g">>
LicensePath == <<"L">>

ZipStorePool ==
    { [k |-> Icon1, v |-> Raw("icon")],
      [k |-> PackPng, v |-> Raw("pack_png")],
      [k |-> A_X, v |-> Raw("generic")],
      [k |-> AB, v |-> Raw("ab")],
      [k |-> O_B, v |-> Raw("other")] }

ZipBitmapPool ==
    { [k |-> A_X, v |-> Raw("bitmap_x")],
      [k |-> A_I, v |-> Raw("bitmap")],
      [k |-> O_B, v |-> Raw("bitmap_o")] }

InitZip ==
    /\ pc = "zip"
    /\ src_files \in Lists(ZipStorePool, MaxFiles)
    /\ gen_images \in Indexes({96}, ZipBitmapPool)
    /\ allowed_paths \in Lists({<<"a">>, PackPng}, 2)
    /\ license_file \in {<<>>, LicensePath}
    /\ cur_scale \in {None, 1}
    /\ dpi_values = Scale1
    /\ svg_process_toggle = (cur_scale # None)
    /\ formats = [f \in TierKeys |-> "label"]
    /\ max_format = 0
    /\ args = [format |-> None, dry_run |-> FALSE]
    /\ cur_fmt = 5
    /\ todo = <<>>
    /\ scales_todo = <<>>
    /\ zips = <<>>
    /\ errors = <<>>
    /\ exit_code = 0
    /\ visited = <<>>
    /\ scanned = [src |-> src_files, img |-> gen_images]
    /\ pre_src = src_files
    /\ pre_img = gen_images
    /\ left_src = src_files
    /\ left_img = gen_images
    /\ IdleTagger
    /\ IdleModules

ZipFrame == <<src_files, gen_images, cur_fmt, cur_scale, todo, scales_todo,
              pre_src, pre_img, left_src, left_img, visited, Config, Tagger, Modules>>

\* create_zip_archive of modules/makezip.py; the filesystem decides whether the
\* output directory can be made and whether the license can be read
CreateZip ==
    /\ pc = "zip"
    /\ \E ok \in BOOLEAN, readable \in BOOLEAN :
        LET r == create_zip_archive(src_files, gen_images, cur_scale,
                                    [sc \in {1} |-> 96], license_file, allowed_paths,
                                    [dry_run |-> FALSE, makedirs_ok |-> ok,
                                     license_exists |-> license_file # <<>>,
                                     license_readable |-> readable])
        IN /\ pc' = IF r.ret THEN "zipped" ELSE "zip_failed"
           /\ errors' = r.z.errors
           /\ zips' = IF r.created
                      THEN <<[fmt |-> cur_fmt, scale |-> cur_scale,
                              written |-> r.z.written, store |-> src_files,
                              index |-> gen_images]>>
                      ELSE <<>>
           /\ UNCHANGED exit_code
    /\ UNCHANGED ZipFrame

\* create_zip_archive of genscript.py
GsCreateZip ==
    /\ pc = "zip"
    /\ \E ok \in BOOLEAN, readable \in BOOLEAN :
        LET r == gs_create_zip_archive(src_files, gen_images, cur_scale,
                                       IF cur_scale = None THEN None ELSE 96,
                                       license_file, allowed_paths,
                                       [dry_run |-> FALSE, makedirs_ok |-> ok,
                                        license_exists |-> license_file # <<>>,
                                        license_readable |-> readable])
        IN /\ pc' = IF r.exit # 0 THEN "exit"
                    ELSE IF r.ret THEN "zipped" ELSE "zip_failed"
           /\ errors' = r.z.errors
           /\ zips' = IF r.created
                      THEN <<[fmt |-> cur_fmt, scale |-> cur_scale,
                              written |-> r.z.written, store |-> src_files,
                              index |-> gen_images]>>
                      ELSE <<>>
           /\ exit_code' = r.exit
    /\ UNCHANGED ZipFrame

NextZip ==
    \/ CreateZip
    \/ GsCreateZip

SpecZip == InitZip /\ [][NextZip]_vars

\* the DPI bucket an archive of the given scale draws its bitmaps from
BucketOf(zip) ==
    IF zip.scale # None /\ 96 \in DOMAIN zip.index THEN zip.index[96] ELSE <<>>

Count(seq, Test(_)) == Len(SelectSeq(seq, Test))

\* the path is one of the allowed prefixes or lies under one
Allowed(path, allowed) ==
    \E i \in DOMAIN allowed : UnderPrefix(path, allowed[i])

\* C2: the entries create_zip_archive writes to one archive have pairwise
\* distinct paths; a path held by both the store and the archive's DPI bucket is
\* written once, with the store's content, and the run records one
\* duplicate_png error for each such path.
C2_DistinctPaths ==
    \A n \in DOMAIN zips :
        LET w == zips[n].written
            both == {e \in Keys(zips[n].store) \cap Keys(BucketOf(zips[n])) :
                        is_allowed(e, allowed_paths)}
        IN /\ \A i, j \in DOMAIN w : w[i].name = w[j].name => i = j
           /\ pc = "zipped" =>
                /\ \A e \in both :
                      /\ Count(w, LAMBDA x : x.name = e) = 1
                      /\ \E i \in DOMAIN w :
                            w[i].name = e /\ w[i].data = Val(zips[n].store, e)
                /\ Count(errors, LAMBDA x : x = "duplicate_png") = Cardinality(both)

\* C3: a store entry, and a bitmap of the archive's DPI whose path the store
\* does not hold, is written under its own path if and only if the path equals
\* an allowed prefix or starts with the prefix followed by "/".
C3_AllowedPrefix ==
    pc = "zipped" =>
        \A n \in DOMAIN zips :
            LET w == zips[n].written
                Written(e) == \E i \in DOMAIN w : w[i].name = e.k /\ w[i].data = e.v
                store == zips[n].store
                bucket == BucketOf(zips[n])
            IN /\ \A i \in DOMAIN store :
                      Written(store[i]) <=> Allowed(store[i].k, allowed_paths)
               /\ \A i \in DOMAIN bucket :
                      ~Has(store, bucket[i].k) =>
                          (Written(bucket[i]) <=> Allowed(bucket[i].k, allowed_paths))

------------------------------------------------------------------------------
(* MetaGenerator on its own *)

MaxTier == 4        \* highest tier key a configuration declares
MaxBuffer == 2      \* highest future-format buffer a configuration sets

Templates ==
    { <<>>,
      <<[k |-> PackJson, v |-> Raw("template")]>>,
      <<[k |-> PackJson, v |-> Raw("not_json")]>>,
      <<[k |-> PackMcmeta, v |-> Raw("stale")], [k |-> PackJson, v |-> Raw("template")]>> }

InitMeta ==
    /\ pc = "config"
    /\ formats \in TierTables(0..MaxTier)
    /\ max_format \in {None} \cup 0..MaxBuffer
    /\ cur_fmt \in DOMAIN formats
    /\ cur_scale \in {None, 1}
    /\ src_files \in Templates
    /\ gen_images = <<>>
    /\ dpi_values = <<>>
    /\ svg_process_toggle = FALSE
    /\ allowed_paths = <<>>
    /\ license_file = <<>>
    /\ args = [format |-> None, dry_run |-> FALSE]
    /\ todo = <<>>
    /\ scales_todo = <<>>
    /\ zips = <<>>
    /\ errors = <<>>
    /\ exit_code = 0
    /\ visited = <<>>
    /\ scanned = [src |-> src_files, img |-> gen_images]
    /\ pre_src = src_files
    /\ pre_img = gen_images
    /\ left_src = src_files
    /\ left_img = gen_images
    /\ IdleTagger
    /\ IdleModules

MetaFrame == <<gen_images, cur_fmt, cur_scale, todo, scales_todo, zips, errors,
               pre_src, pre_img, left_src, left_img, visited, Config, Tagger, Modules>>

\* ConfigLoader.printouts at startup
ConfigLoad ==
    /\ pc = "config"
    /\ exit_code' = config_load(max_format)
    /\ pc' = IF config_load(max_format) # 0 THEN "exit" ELSE "ready"
    /\ UNCHANGED <<src_files, MetaFrame>>

\* generate_pack_mcmeta of modules/mcmeta.py for the tier and scale drawn
Generate ==
    /\ pc = "ready"
    /\ LET r == generate_pack_mcmeta(cur_fmt, cur_scale, src_files, formats, max_format)
       IN /\ src_files' = r.src
          /\ exit_code' = r.exit
          /\ pc' = IF r.raised THEN "raised"
                   ELSE IF r.exit # 0 THEN "exit" ELSE "generated"
    /\ UNCHANGED MetaFrame

\* generate_pack_mcmeta of genscript.py, whose configuration has no buffer
GsGenerate ==
    /\ pc = "config"
    /\ src_files' = gs_generate_pack_mcmeta(cur_fmt, formats, cur_scale, src_files)
    /\ pc' = "gs_generated"
    /\ UNCHANGED <<exit_code, MetaFrame>>

NextMeta ==
    \/ ConfigLoad
    \/ Generate
    \/ GsGenerate

SpecMeta == InitMeta /\ [][NextMeta]_vars

Descriptor == Val(src_files, PackMcmeta)

Below(S, fmt) == {key \in S : key < fmt}

\* min_format and max_format as the claims give them for a tier of the set S
MinOf(S, fmt) == IF Below(S, fmt) = {} THEN fmt ELSE SetMax(Below(S, fmt)) + 1

MaxOf(S, fmt, buffer) ==
    IF fmt = SetMax(S) THEN fmt + (IF buffer = None THEN 0 ELSE buffer) ELSE fmt

\* the tier set with tier 0 declared as tier 1
AsTierOne(S) == (S \ {0}) \cup {1}

\* C7: for a tier set that holds tier 0 and a configured buffer, generating the descriptor of tier 0
\* succeeds with format 1 and with the min_format and max_format an explicitly
\* declared tier 1 has in that position of the tier set.
C7_TierZero ==
    (cur_fmt = 0 /\ max_format # None /\ Has(scanned.src, PackJson)
        /\ template_valid(Val(scanned.src, PackJson))) =>
        /\ pc \notin {"raised", "exit"}
        /\ pc \in {"generated", "gs_generated"} =>
              /\ Descriptor.format = 1
              /\ Descriptor.min_format = MinOf(AsTierOne(DOMAIN formats), 1)
              /\ pc = "generated" =>
                    Descriptor.max_format = MaxOf(AsTierOne(DOMAIN formats), 1, max_format)

\* C8: min_format is the greatest declared tier key strictly below the current
\* format, plus one, and the format itself when no declared key is below it.
C8_MinFormat ==
    pc \in {"generated", "gs_generated"} =>
        Descriptor.min_format = MinOf(DOMAIN formats, Descriptor.format)

\* C8 witness: a descriptor was generated for a tier that has at least two
\* declared tiers below it, the nearer one not adjacent
C8_Witness ==
    /\ pc = "generated"
    /\ Cardinality(Below(DOMAIN formats, cur_fmt)) >= 2
    /\ Descriptor.min_format = SetMax(Below(DOMAIN formats, cur_fmt)) + 1
    /\ Descriptor.min_format < cur_fmt

\* C9: max_format is the format, except for the highest declared tier, where it
\* is the format plus the configured buffer; with no buffer configured the
\* buffer counts as 0 and the descriptor is still generated.
C9_MaxFormat ==
    /\ (max_format = None /\ Has(scanned.src, PackJson) /\ cur_fmt # 0
            /\ template_valid(Val(scanned.src, PackJson))) => pc # "exit"
    /\ (pc = "generated" /\ cur_fmt # 0) =>
          Descriptor.max_format = MaxOf(DOMAIN formats, cur_fmt, max_format)

\* the outcome of generating the descriptor of tier g in the revision that
\* generated the current one, from the same store and configuration
Generated(g) ==
    IF pc = "generated"
    THEN generate_pack_mcmeta(g, cur_scale, scanned.src, formats, max_format)
    ELSE [src |-> gs_generate_pack_mcmeta(g, formats, cur_scale, scanned.src),
          exit |-> 0, raised |-> FALSE]

Succeeds(g) == Generated(g).exit = 0 /\ ~Generated(g).raised

\* the formats the descriptor of tier g claims
Range(g) ==
    Val(Generated(g).src, PackMcmeta).min_format..Val(Generated(g).src, PackMcmeta).format

\* C29: the ranges [min_format, format] of the descriptors generated for the
\* declared tiers are pairwise disjoint, each has min_format <= format <=
\* max_format, and together they cover every format from the lowest tier's to
\* the highest tier's.  Tier sets that declare both 0 and 1 are left out: their
\* two descriptors have the same format.
C29_RangesPartition ==
    (pc \in {"generated", "gs_generated"} /\ ~({0, 1} \subseteq DOMAIN formats)) =>
        /\ Descriptor.min_format <= Descriptor.format
        /\ Descriptor.format <= Descriptor.max_format
        /\ \A g \in DOMAIN formats :
              (g # cur_fmt /\ Succeeds(g)) => Range(cur_fmt) \cap Range(g) = {}
        /\ (\A g \in DOMAIN formats : Succeeds(g)) =>
              LET claimed == {Val(Generated(g).src, PackMcmeta).format : g \in DOMAIN formats}
              IN \A lo \in claimed, hi \in claimed :
                    \A n \in lo..hi : \E g \in DOMAIN formats : n \in Range(g)

------------------------------------------------------------------------------
(* ResolutionTagger on its own *)

MaxSources == 3     \* paths of a source tree

TagPool ==
    { <<"a", ".", "p">>,
      <<"a", ".", "@", "3", "2", ".", "p">>,
      <<"a", ".", "@", "6", "4", ".", "p">>,
      <<"@", "3", "2", "/", "a", ".", "@", "6", "4", ".", "p">>,
      <<"a", ".", "@", "3", "2", ".", "@", "3", "2", ".", "p">>,
      <<"@", "3", "2", "/", "a", ".", "p">>,
      <<"a", "@", "6", "@", "3", "2", ".", "4", ".", "p">>,
      <<"a", ".", "@", "7", ".", "p">>,
      <<"b", "b", "@", "3", "2", "/", "x", ".", "p">>,
      <<"b", "b", "@", "3", "2", "/", "y", ".", "p">>,
      <<"d", "/", "@", "3", "2", "/", "a", ".", "p">>,
      <<"d", "/", "a", ".", "@", "3", "2", ".", "p">>,
      <<"b", "@", "3", "2", "/", "x", ".", "p">> }

InitTag ==
    /\ pc = "tag"
    /\ sources \in Lists(TagPool, MaxSources)
    /\ tagged = EmptyTag
    /\ src_files = <<>>
    /\ gen_images = <<>>
    /\ cur_fmt = None
    /\ cur_scale = None
    /\ IdleRun
    /\ scanned = [src |-> src_files, img |-> gen_images]
    /\ pre_src = src_files
    /\ pre_img = gen_images
    /\ left_src = src_files
    /\ left_img = gen_images
    /\ IdleModules

\* ProxyLoader(sources, search_pattern)
Tag ==
    /\ pc = "tag"
    /\ tagged' = ProxyLoader(sources, EmptyTag)
    /\ pc' = "tagged"
    /\ UNCHANGED <<src_files, gen_images, cur_fmt, cur_scale, sources, pre_src,
                   pre_img, Run, Modules>>

NextTag == Tag

SpecTag == InitTag /\ [][NextTag]_vars

\* the positions of a path where the tag, digits and a separator begin
TagSites(path) ==
    {i \in DOMAIN path :
        /\ path[i] = TagChar
        /\ \E e \in (i + 2)..Len(path) :
              /\ path[e] \in {".", "/"}
              /\ \A m \in (i + 1)..(e - 1) : path[m] \in Digits}

SourceSet == {sources[i] : i \in DOMAIN sources}

\* C10: every source path the tag pattern matches more than once is recorded
\* as a TooManyResolutions error and is not in the ResolutionTagMap, neither
\* as a base key nor as the value of any resolution.
C10_TooManyExcluded ==
    pc = "tagged" =>
        \A path \in SourceSet :
            Cardinality(TagSites(path)) > 1 =>
                /\ Has(tagged.too_many, path)
                /\ ~Has(tagged.proxy, path)
                /\ \A i \in DOMAIN tagged.proxy :
                      \A j \in DOMAIN tagged.proxy[i].v : tagged.proxy[i].v[j].v # path

\* C10 witness: the tree held a path with two tags and a singly tagged path
\* whose base path went into the map
C10_Witness ==
    /\ pc = "tagged"
    /\ \E path \in SourceSet : Cardinality(TagSites(path)) > 1
    /\ tagged.too_many # <<>>
    /\ tagged.proxy # <<>>

\* the characters of a path from position i up to the next separator
RECURSIVE Token(_, _)
Token(path, i) ==
    IF i > Len(path) \/ path[i] \in {".", "/"} THEN <<>>
    ELSE <<path[i]>> \o Token(path, i + 1)

\* the number a string of decimal digits denotes
RECURSIVE Numeral(_)
Numeral(ds) ==
    IF ds = <<>> THEN 0
    ELSE LET d == CHOOSE n \in 0..9 : Str(n) = <<Head(ds)>>
             rest == Tail(ds)
         IN d * (IF Len(rest) = 0 THEN 1
                 ELSE IF Len(rest) = 1 THEN 10
                 ELSE IF Len(rest) = 2 THEN 100 ELSE 1000) + Numeral(rest)

\* the one place where a singly tagged path is tagged, and its number
SiteOf(path) == CHOOSE i \in TagSites(path) : TRUE

SizeOf(path) == Numeral(Token(path, SiteOf(path) + 1))

\* the path is a value of the map under some resolution
Mapped(path) ==
    \E i \in DOMAIN tagged.proxy :
        \E j \in DOMAIN tagged.proxy[i].v : tagged.proxy[i].v[j].v = path

\* C11: every non-zero resolution key of the ResolutionTagMap is one of 32, 64
\* and 128, and a path with exactly one tag match whose number is not one of
\* them is recorded as InvalidResolution and is not in the map.
C11_KnownSizes ==
    pc = "tagged" =>
        /\ \A i \in DOMAIN tagged.proxy :
              \A j \in DOMAIN tagged.proxy[i].v :
                  tagged.proxy[i].v[j].k \in {0, 32, 64, 128}
        /\ \A path \in SourceSet :
              (Cardinality(TagSites(path)) = 1 /\ SizeOf(path) \notin {32, 64, 128}) =>
                  /\ Has(tagged.invalid, path)
                  /\ Val(tagged.invalid, path).size = SizeOf(path)
                  /\ ~Mapped(path)

\* C11 witness: the tree held a path tagged 7 and a path tagged with a known
\* size, and the second is in the map under that size
C11_Witness ==
    /\ pc = "tagged"
    /\ \E path \in SourceSet :
          Cardinality(TagSites(path)) = 1 /\ SizeOf(path) = 7
    /\ tagged.invalid # <<>>
    /\ \E i \in DOMAIN tagged.proxy :
          \E j \in DOMAIN tagged.proxy[i].v : tagged.proxy[i].v[j].k \in {32, 64, 128}

------------------------------------------------------------------------------
(* ThemeEngine on its own *)

I_SVG == <<"i", ".", "s", "v", "g">>
J_SVG == <<"j", ".", "S", "V", "G">>
T_TXT == <<"t", ".", "t", "x", "t">>

HexColors == { <<"#", "A">>, <<"#", "a">>, <<"#", "B">>, <<"#", "b">> }

ColorNames == {"primary", "accent"}

ColorMaps == Lists({[k |-> name, v |-> hex] : name \in ColorNames, hex \in HexColors}, 2)

Texts == { <<"<", "#", "A", "#", "a", ">">>, <<"#", "B", "#", "A">>, <<"<", ">">>,
           <<"#", "a", "#", "b">> }

Text(tok, chars) == [tok |-> tok, text |-> chars]

InitTheme ==
    /\ pc = "theme"
    /\ color_map \in {m \in ColorMaps : \A i, j \in DOMAIN m : m[i].k = m[j].k => i = j}
    /\ theme_color_map \in {m \in ColorMaps : \A i, j \in DOMAIN m : m[i].k = m[j].k => i = j}
    /\ \E t1 \in Texts, t2 \in Texts :
          src_files \in { <<[k |-> I_SVG, v |-> Text("svg", t1)]>>,
                          <<[k |-> T_TXT, v |-> Text("txt", t1)],
                            [k |-> J_SVG, v |-> Text("svg", t2)]>>,
                          <<[k |-> I_SVG, v |-> Text("bad", <<>>)],
                            [k |-> J_SVG, v |-> Text("svg", t1)]>>,
                          <<[k |-> J_SVG, v |-> Text("svg", t1)],
                            [k |-> I_SVG, v |-> Text("bad", <<>>)]>> }
    /\ flags \in [theme : BOOLEAN, scale : {None}, exit_error : {FALSE}]
    /\ sorted_scales = <<>>
    /\ loader = NoLoader
    /\ gen_images = <<>>
    /\ cur_fmt = None
    /\ IdleRun
    /\ IdleTagger
    /\ scanned = [src |-> src_files, img |-> gen_images]
    /\ pre_src = src_files
    /\ pre_img = gen_images
    /\ left_src = src_files
    /\ left_img = gen_images

ThemeFrame == <<gen_images, formats, max_format, dpi_values, svg_process_toggle,
                allowed_paths, license_file, args, cur_fmt, cur_scale, todo,
                scales_todo, zips, scanned, pre_img, left_src, left_img,
                visited, Tagger, Modules>>

\* apply_theme of modules/theme.py, and once more on its own output
ApplyTheme ==
    /\ pc \in {"theme", "themed"}
    /\ \E dir \in BOOLEAN, file \in BOOLEAN :
        LET r == apply_theme(src_files, flags.theme, color_map, theme_color_map,
                             [theme_dir |-> dir, theme_file |-> file])
        IN /\ src_files' = r.src
           /\ errors' = errors \o r.errors
           /\ exit_code' = r.exit
           /\ pc' = IF r.exit # 0 THEN "exit"
                    ELSE IF pc = "theme" THEN "themed" ELSE "themed_twice"
    /\ pre_src' = src_files
    /\ UNCHANGED ThemeFrame

\* apply_theme of genscript.py
GsApplyTheme ==
    /\ pc = "theme"
    /\ \E dir \in BOOLEAN, file \in BOOLEAN :
        LET r == gs_apply_theme(src_files, flags.theme, color_map, theme_color_map,
                                [theme_dir |-> dir, theme_file |-> file])
        IN /\ src_files' = r.src
           /\ errors' = errors \o r.errors
           /\ exit_code' = r.exit
           /\ pc' = IF r.exit # 0 THEN "exit" ELSE "gs_themed"
    /\ pre_src' = src_files
    /\ UNCHANGED ThemeFrame

NextTheme ==
    \/ ApplyTheme
    \/ GsApplyTheme

SpecTheme == InitTheme /\ [][NextTheme]_vars

\* C12: a theme whose colour map is identical to the baseline colour map leaves
\* every entry of the store equal to its input, whatever the content and the
\* letter case of the hex literals; so applying it twice equals applying it once.
C12_IdentityTheme ==
    (theme_color_map = color_map /\ pc \in {"themed", "themed_twice"}) =>
        src_files = scanned.src

\* C12 witness: an identity theme with an upper-case baseline colour was
\* applied twice to an SVG that holds that colour in both letter cases
C12_Witness ==
    /\ pc = "themed_twice"
    /\ flags.theme
    /\ theme_color_map = color_map
    /\ \E i \in DOMAIN color_map : color_map[i].v = <<"#", "A">>
    /\ \E i \in DOMAIN src_files :
          /\ src_files[i].v.tok = "svg"
          /\ contains(src_files[i].v.text, <<"#", "A">>)
          /\ contains(src_files[i].v.text, <<"#", "a">>)

\* the k-th literal of a text: hex literals are two characters long, so every
\* substitution keeps the positions of the text
Literal(text, k) == SubSeq(text, k, k + 1)

\* the entries apply_theme rewrites: the vector images of the store it was given
Vectors == { i \in DOMAIN pre_src :
               /\ endswith(lower(pre_src[i].k), DotSvg)
               /\ pre_src[i].v.tok = "svg" }

\* the text apply_theme left in the store for entry i of its input
Output(i) == Val(src_files, pre_src[i].k).text

\* every entry of the store apply_theme was given decodes as UTF-8
Readable == \A i \in DOMAIN pre_src : pre_src[i].v.tok # "bad"

\* no two baseline keys name the same colour, and no theme colour is the
\* baseline colour of another key
Unambiguous ==
    /\ \A c, d \in DOMAIN color_map :
          c # d => lower(color_map[c].v) # lower(color_map[d].v)
    /\ \A c \in DOMAIN color_map, t \in DOMAIN theme_color_map :
          color_map[c].k # theme_color_map[t].k =>
              lower(theme_color_map[t].v) # lower(color_map[c].v)

\* C21: with a theme selected, every occurrence in a vector entry's text of the
\* baseline hex of a key the theme redefines is replaced by the theme's hex for
\* that key, lower-cased; the hex literals of the other keys keep their colour.
C21_ThemeColors ==
    (pc \in {"themed", "gs_themed"} /\ flags.theme /\ Readable /\ Unambiguous) =>
        \A i \in Vectors, c \in DOMAIN color_map :
            \A k \in 1..(Len(pre_src[i].v.text) - 1) :
                Literal(pre_src[i].v.text, k) = color_map[c].v =>
                    IF Has(theme_color_map, color_map[c].k)
                    THEN Literal(Output(i), k) =
                             lower(Val(theme_color_map, color_map[c].k))
                    ELSE lower(Literal(Output(i), k)) = lower(color_map[c].v)

\* the substitutions apply_theme collects for entry i of its input
Substitutions(i) ==
    new_color_map(color_map, theme_color_map, pre_src[i].v.text, EmptyDict)

\* C22: the substitutions of one file are applied as a single pass over the
\* original text: a colour literal of the input that has a substitution is
\* rewritten into the colour of that substitution and stays so, whatever else
\* the map holds, and every other character is left as it was.
C22_SinglePass ==
    (pc \in {"themed", "gs_themed"} /\ flags.theme /\ Readable) =>
        \A i \in Vectors :
            \A k \in 1..(Len(pre_src[i].v.text) - 1) :
                LET literal == Literal(pre_src[i].v.text, k)
                IN IF Has(Substitutions(i), literal)
                   THEN Literal(Output(i), k) = Val(Substitutions(i), literal)
                   ELSE literal[1] = "#" => Literal(Output(i), k) = literal

\* C23: a missing theme directory or theme file ends the run (status 31 or
\* 32); a vector entry that cannot be read is a per-file error that does not:
\* it is recorded, that entry is left as it was, every other vector entry of
\* the store is themed, and the run goes on.
C23_PerFileError ==
    (pc \in {"themed", "gs_themed", "exit"} /\ flags.theme /\ ~Readable) =>
        /\ exit_code \in {0, 31, 32}
        /\ pc # "exit" =>
              /\ errors # <<>>
              /\ \A i \in DOMAIN pre_src :
                    pre_src[i].v.tok = "bad" => src_files[i] = pre_src[i]
              /\ \A i \in Vectors :
                    Output(i) = themed(pre_src[i].v.text, color_map, theme_color_map)

------------------------------------------------------------------------------
(* Rasterizer on its own *)

K_SVG == <<"k", ".", "s", "v", "g">>

Dim(n, unit) == [n |-> n, unit |-> unit]

Svg(width, height, renders) ==
    [tok |-> "svg", width |-> width, height |-> height, renders |-> renders]

SvgPool ==
    { [k |-> I_SVG, v |-> Svg(Dim(100, ""), Dim(50, ""), TRUE)],
      [k |-> I_SVG, v |-> Svg(Dim(54, "pt"), Dim(100, "pt"), TRUE)],
      [k |-> J_SVG, v |-> Svg(Dim(100, "pt"), Dim(50, ""), TRUE)],
      [k |-> J_SVG, v |-> Svg(Dim(100, ""), Dim(50, ""), FALSE)],
      [k |-> K_SVG, v |-> Svg(Dim(0, "none"), Dim(50, ""), TRUE)],
      [k |-> K_SVG, v |-> Svg(Dim(100, "px"), Dim(50, ""), TRUE)],
      [k |-> K_SVG, v |-> Svg(Dim(100, ""), Dim(0, "none"), TRUE)],
      [k |-> T_TXT, v |-> Raw("text")] }

ScaleTables ==
    { <<[k |-> 2, v |-> 192], [k |-> 1, v |-> 96]>>,
      <<[k |-> 2, v |-> 208], [k |-> 1, v |-> 96]>>,
      <<[k |-> 1, v |-> 208]>> }

MaxVectors == 2

InitRaster ==
    /\ pc = "raster"
    /\ src_files \in {t \in Lists(SvgPool, MaxVectors) :
                         \A i, j \in DOMAIN t : t[i].k = t[j].k => i = j}
    /\ sorted_scales \in ScaleTables
    /\ dpi_values \in {sorted_scales} \cup {<<sorted_scales[i]>> : i \in DOMAIN sorted_scales}
    /\ flags \in [theme : {FALSE}, scale : {None, 1, 2, 9}, exit_error : BOOLEAN]
    /\ svg_process_toggle = TRUE
    /\ gen_images = NoImages
    /\ color_map = <<>>
    /\ theme_color_map = <<>>
    /\ loader = NoLoader
    /\ formats = [f \in TierKeys |-> "label"]
    /\ max_format = 0
    /\ allowed_paths = <<>>
    /\ license_file = <<>>
    /\ args = [format |-> None, dry_run |-> FALSE]
    /\ cur_fmt = None
    /\ cur_scale = None
    /\ todo = <<>>
    /\ scales_todo = <<>>
    /\ zips = <<>>
    /\ errors = <<>>
    /\ exit_code = 0
    /\ visited = <<>>
    /\ scanned = [src |-> src_files, img |-> gen_images]
    /\ pre_src = src_files
    /\ pre_img = gen_images
    /\ left_src = src_files
    /\ left_img = gen_images
    /\ IdleTagger

RasterFrame == <<formats, max_format, dpi_values, svg_process_toggle, allowed_paths,
                 license_file, args, cur_fmt, cur_scale, todo, scales_todo, zips,
                 scanned, pre_src, pre_img, left_src, left_img, visited, Tagger,
                 Modules>>

\* convert_svg_to_png of modules/svg2png.py
ConvertSvgToPng ==
    /\ pc = "raster"
    /\ \E r \in {convert_svg_to_png(src_files, sorted_scales, flags.scale,
                                     flags.exit_error)} :
          /\ src_files' = r.src
          /\ gen_images' = r.img
          /\ errors' = r.errors
          /\ exit_code' = r.exit
          /\ pc' = IF r.exit # 0 THEN "exit" ELSE "converted"
    /\ UNCHANGED RasterFrame

\* convert_svg_to_png of genscript.py
GsConvertSvgToPng ==
    /\ pc = "raster"
    /\ \E r \in {gs_convert_svg_to_png(src_files, dpi_values)} :
          /\ src_files' = r.src
          /\ gen_images' = r.img
          /\ errors' = r.errors
          /\ exit_code' = r.exit
          /\ pc' = "gs_converted"
    /\ UNCHANGED RasterFrame

NextRaster ==
    \/ ConvertSvgToPng
    \/ GsConvertSvgToPng

SpecRaster == InitRaster /\ [][NextRaster]_vars

IsVector(path) ==
    Len(path) >= 4 /\ lower(SubSeq(path, Len(path) - 3, Len(path))) = DotSvg

AsPng(path) == SubSeq(path, 1, Len(path) - 4) \o DotPng

\* the DPIs of the scales the run was asked for
SelectedDpis ==
    IF pc = "gs_converted" THEN {dpi_values[i].v : i \in DOMAIN dpi_values}
    ELSE {sorted_scales[i].v : i \in {n \in DOMAIN sorted_scales :
                                        flags.scale = None \/ sorted_scales[n].k = flags.scale}}

Numeric(dim) == dim.unit \in {"", "pt"}

\* C13: for each vector entry and requested DPI, the bitmap's size is
\* floor(width * dpi / 96) by floor(height * dpi / 96), width and height being
\* the declared dimensions with a trailing "pt" stripped.
C13_TargetSize ==
    pc \in {"converted", "gs_converted"} =>
        \A i \in DOMAIN scanned.src :
            LET e == scanned.src[i]
            IN (IsVector(e.k) /\ Numeric(e.v.width) /\ Numeric(e.v.height) /\ e.v.renders) =>
                  \A dpi \in SelectedDpis :
                      (dpi \in DOMAIN gen_images /\ Has(gen_images[dpi], AsPng(e.k))) =>
                          /\ Val(gen_images[dpi], AsPng(e.k)).width
                                = (e.v.width.n * dpi) \div 96
                          /\ Val(gen_images[dpi], AsPng(e.k)).height
                                = (e.v.height.n * dpi) \div 96

\* C14: after the Rasterizer has run, no vector entry is left in the store,
\* every vector entry that was there has an entry at its path with the
\* extension swapped to .png under every selected DPI, and the index has
\* buckets for selected DPIs only.
C14_VectorsReplaced ==
    pc \in {"converted", "gs_converted"} =>
        /\ \A key \in Keys(src_files) : ~IsVector(key)
        /\ \A key \in Keys(scanned.src) :
              IsVector(key) =>
                  \A dpi \in SelectedDpis :
                      dpi \in DOMAIN gen_images /\ Has(gen_images[dpi], AsPng(key))
        /\ DOMAIN gen_images \subseteq SelectedDpis

Missing(content) ==
    \/ content.width.unit = "none"
    \/ Numeric(content.width) /\ content.height.unit = "none"

Rejected(content) ==
    \/ content.width.unit = "px"
    \/ Numeric(content.width) /\ content.height.unit = "px"

\* the errors one vector entry gives rise to when nothing ends the run
RECURSIVE FaultsOf(_, _)
FaultsOf(content, count) ==
    IF Missing(content) THEN <<"svg_processing_error">>
    ELSE IF count = 0 THEN <<>>
    ELSE (IF Rejected(content) THEN <<"svg_bad_dimensions">> ELSE <<>>)
         \o (IF content.renders THEN <<>> ELSE <<"no_png_data">>)
         \o FaultsOf(content, count - 1)

RECURSIVE FaultsUpTo(_, _)
FaultsUpTo(store, n) ==
    IF n = 0 THEN <<>>
    ELSE FaultsUpTo(store, n - 1)
         \o (IF IsVector(store[n].k)
             THEN FaultsOf(store[n].v, Cardinality(SelectedDpis))
             ELSE <<>>)

CodeOf(kind) == IF kind = "svg_processing_error" THEN 41 ELSE 43

ScaleDeclared ==
    flags.scale = None \/ \E i \in DOMAIN sorted_scales : sorted_scales[i].k = flags.scale

Bitmapped(key) == \E dpi \in DOMAIN gen_images : Has(gen_images[dpi], AsPng(key))

Recorded(kind) == Cardinality({n \in DOMAIN errors : errors[n] = kind})

\* C24: a vector entry whose declared width or height cannot be parsed (the
\* attribute is missing or is not a number once "pt" is stripped) is rendered
\* at the fallback size of 1024 by 1024 for every selected DPI, with a
\* non-fatal svg_bad_dimensions warning recorded.
C24_FallbackSize ==
    (pc \in {"converted", "gs_converted"} /\ ScaleDeclared) =>
        \A i \in DOMAIN scanned.src :
            LET e == scanned.src[i]
            IN (IsVector(e.k) /\ (Missing(e.v) \/ Rejected(e.v)) /\ e.v.renders) =>
                  /\ Recorded("svg_bad_dimensions") >= 1
                  /\ \A dpi \in SelectedDpis :
                        /\ dpi \in DOMAIN gen_images
                        /\ Has(gen_images[dpi], AsPng(e.k))
                        /\ Val(gen_images[dpi], AsPng(e.k)).width
                              = (FallbackSize * dpi) \div ReferenceDpi
                        /\ Val(gen_images[dpi], AsPng(e.k)).height
                              = (FallbackSize * dpi) \div ReferenceDpi

------------------------------------------------------------------------------
(* The run with tiers that may share a label *)

TwoScales == <<[k |-> 2, v |-> 192], [k |-> 1, v |-> 96]>>

InitNames ==
    /\ pc = "loop"
    /\ formats \in UNION {[S -> {"1.20", "1.21"}] : S \in (SUBSET TierKeys) \ {{}}}
    /\ max_format = 0
    /\ svg_process_toggle \in BOOLEAN
    /\ dpi_values \in IF svg_process_toggle THEN {Scale1, TwoScales} ELSE {<<>>}
    /\ src_files = <<[k |-> A_X, v |-> Raw("x")]>>
    /\ gen_images = IF svg_process_toggle
                    THEN [dpi \in {dpi_values[i].v : i \in DOMAIN dpi_values}
                            |-> <<[k |-> A_I, v |-> Raw("bitmap")]>>]
                    ELSE <<>>
    /\ allowed_paths = << <<"a">>, PackMcmeta >>
    /\ license_file = <<>>
    /\ args \in [format : {None} \cup DOMAIN formats, dry_run : {FALSE}]
    /\ cur_fmt = None
    /\ cur_scale = None
    /\ todo = sorted_reverse(DOMAIN formats)
    /\ scales_todo = <<>>
    /\ zips = <<>>
    /\ errors = <<>>
    /\ exit_code = 0
    /\ scanned = [src |-> src_files, img |-> gen_images]
    /\ pre_src = src_files
    /\ pre_img = gen_images
    /\ left_src = src_files
    /\ left_img = gen_images
    /\ visited = <<>>
    /\ IdleTagger
    /\ IdleModules

SpecNames == InitNames /\ [][Next]_vars

\* C15: the archives of one run have pairwise distinct paths, so none
\* overwrites another.
C15_DistinctArchives ==
    \A i, j \in DOMAIN zips : i # j => zips[i].path # zips[j].path

------------------------------------------------------------------------------
(* The run over trees whose manifests may be malformed *)

\* "m_nolist" is a JSON document without an exclusions list, "m_text" is no
\* JSON at all
ManifestTokens == {"m_file", "m_nolist", "m_text"}

InitManifest ==
    /\ pc = "loop"
    /\ formats \in TierTables(TierKeys)
    /\ max_format = 0
    /\ svg_process_toggle \in BOOLEAN
    /\ dpi_values = IF svg_process_toggle THEN Scale1 ELSE <<>>
    /\ src_files \in Trees(ManifestTokens, ManifestTokens,
                           {[k |-> A_X, v |-> Raw("generic")],
                            [k |-> Under(3, A_X), v |-> Raw("override3")]})
    /\ gen_images = IF svg_process_toggle
                    THEN [dpi \in {96} |-> <<[k |-> A_I, v |-> Raw("bitmap")]>>]
                    ELSE <<>>
    /\ allowed_paths = << <<"a">>, PackMcmeta >>
    /\ license_file = <<>>
    /\ args \in [format : {None} \cup DOMAIN formats, dry_run : {FALSE}]
    /\ cur_fmt = None
    /\ cur_scale = None
    /\ todo = sorted_reverse(DOMAIN formats)
    /\ scales_todo = <<>>
    /\ zips = <<>>
    /\ errors = <<>>
    /\ exit_code = 0
    /\ scanned = [src |-> src_files, img |-> gen_images]
    /\ pre_src = src_files
    /\ pre_img = gen_images
    /\ left_src = src_files
    /\ left_img = gen_images
    /\ visited = <<>>
    /\ IdleTagger
    /\ IdleModules

SpecManifest == InitManifest /\ [][Next]_vars

\* the manifest of the current tier, as apply_exclusions found it, is malformed
Malformed ==
    /\ cur_fmt # None
    /\ pc # "exclusions"
    /\ Has(pre_src, manifest_path(cur_fmt))
    /\ LET doc == json_loads(Val(pre_src, manifest_path(cur_fmt)))
       IN ~doc.valid \/ ~doc.has_list

\* C25: a malformed manifest of a tier (no valid JSON, or a document without
\* an exclusions list) is a non-fatal error: it is recorded in the tally and
\* the run goes on with the tier's inclusion and archive and with the
\* remaining tiers.
C25_MalformedManifest ==
    Malformed =>
        /\ pc \in {"inclusions", "archive", "loop", "done"}
        /\ errors # <<>>

------------------------------------------------------------------------------
(* The archives of the run *)

\* C26: a failure to create the output directory of one archive is recorded
\* as a non-fatal error and aborts only that archive: the run is not ended by
\* it and goes on with the remaining archives.
C26_DirectoryFailure ==
    Recorded("directory_creation_error") > 0 =>
        /\ pc # "exit"
        /\ exit_code = 0

\* the descriptors a store holds, and those an archive was given
Descriptors(store) == {n \in DOMAIN store : store[n].k = PackMcmeta}

Packed(written) == {n \in DOMAIN written : written[n].name = PackMcmeta}

\* C27: every archive assembled for a tier and a scale is built from a store
\* whose single pack.mcmeta is the descriptor generated for that tier and that
\* scale, and a descriptor written into the archive is that one; no archive
\* holds the descriptor of another tier or scale.
C27_OwnDescriptor ==
    \A i \in DOMAIN zips :
        LET z == zips[i]
        IN /\ Cardinality(Descriptors(z.store)) = 1
           /\ Val(z.store, PackMcmeta).tok = "pack.mcmeta"
           /\ Val(z.store, PackMcmeta).format = (IF z.fmt = 0 THEN 1 ELSE z.fmt)
           /\ Val(z.store, PackMcmeta).scale = z.scale
           /\ \A n \in Packed(z.written) :
                 z.written[n].data = Val(z.store, PackMcmeta)

\* C27 witness: the run has assembled two archives of one tier for different
\* scales, and an archive of another tier
C27_Witness ==
    \E i, j, k \in DOMAIN zips :
        /\ zips[i].fmt = zips[j].fmt
        /\ zips[i].scale # zips[j].scale
        /\ zips[k].fmt # zips[i].fmt
        /\ Packed(zips[k].written) # {}

\* the tiers in the order of the loop, and the scales each tier is archived for
Tiers == sorted_reverse(DOMAIN formats)

ScalesOf == IF svg_process_toggle THEN dpi_values ELSE <<[k |-> None, v |-> None]>>

\* the store after the descriptors of the first n of a tier's scales
RECURSIVE Described(_, _, _)
Described(store, fmt, n) ==
    IF n = 0 THEN store
    ELSE gs_generate_pack_mcmeta(fmt, formats, ScalesOf[n].k, Described(store, fmt, n - 1))

\* the store and the index a run without --format holds after the overlay of
\* the n-th tier, every tier before it having been overlaid and archived
RECURSIVE Unrestricted(_)
Unrestricted(n) ==
    LET prev == IF n = 1 THEN [src |-> scanned.src, img |-> scanned.img]
                ELSE [src |-> Described(Unrestricted(n - 1).src, Tiers[n - 1],
                                        Len(ScalesOf)),
                      img |-> Unrestricted(n - 1).img]
        ex == gs_apply_exclusions(Tiers[n], prev.src, prev.img)
    IN gs_apply_inclusions(Tiers[n], ex.src, ex.img)

\* what a run without --format writes into the archive of a tier and a scale
UnrestrictedArchive(fmt, scale) ==
    LET n == CHOOSE t \in DOMAIN Tiers : Tiers[t] = fmt
        s == CHOOSE m \in DOMAIN ScalesOf : ScalesOf[m].k = scale
        over == Unrestricted(n)
    IN gs_create_zip_archive(Described(over.src, fmt, s), over.img, scale,
                             ScalesOf[s].v, license_file, allowed_paths,
                             DefaultEnv).z.written

\* C28: a run restricted to one tier with --format writes for that tier the
\* archive a run without --format writes for it on the same source and
\* configuration; it archives no other tier and processes no tier below it.
C28_TierFilter ==
    /\ \A i \in DOMAIN zips :
          zips[i].written = UnrestrictedArchive(zips[i].fmt, zips[i].scale)
    /\ args.format # None =>
          /\ \A i \in DOMAIN zips : zips[i].fmt = args.format
          /\ \A i \in DOMAIN visited : visited[i] >= args.format

\* C28 witness: a run restricted to tier 3 has written its archive, and the
\* archive holds an asset that the inclusion of tier 5 put in place
C28_Witness ==
    /\ args.format = 3
    /\ visited = <<5, 3>>
    /\ zips # <<>>
    /\ \E n \in DOMAIN zips[1].written : zips[1].written[n].data = Raw("override5")

------------------------------------------------------------------------------
(* SourceLoader *)

\* the last component of a path
RECURSIVE basename(_)
basename(path) ==
    IF has_slash(path) THEN basename(Tail(path)) ELSE path

\* Path(rel_path).suffix: from the last dot of the name on, empty when the name
\* has no dot, or only a leading or a trailing one
suffix(path) ==
    LET name == basename(path)
        dots == {i \in DOMAIN name : name[i] = "."}
    IN IF dots = {} THEN <<>>
       ELSE LET last == CHOOSE i \in dots : \A j \in dots : j <= i
            IN IF last = 1 \/ last = Len(name) THEN <<>>
               ELSE SubSeq(name, last, Len(name))

\* the loop that fills self.filetypes from self.items()
RECURSIVE count_filetypes(_, _)
count_filetypes(files, filetypes) ==
    IF files = <<>> THEN filetypes
    ELSE LET ext == lower(suffix(Head(files).k))
         IN count_filetypes(Tail(files),
                            IF ext = <<>> THEN filetypes
                            ELSE IF Has(filetypes, ext)
                            THEN Put(filetypes, ext, Val(filetypes, ext) + 1)
                            ELSE Put(filetypes, ext, 1))

\* dict.update(other) on an ordered dict
RECURSIVE dict_update(_, _)
dict_update(d, other) ==
    IF other = <<>> THEN d
    ELSE dict_update(Put(d, Head(other).k, Head(other).v), Tail(other))

Returned(l) == [l |-> l, raised |-> "none"]

Raised(l, kind) == [l |-> l, raised |-> kind]

\* SourceLoader.__init__
SourceLoader(readonly) ==
    [files |-> <<>>, filecount |-> 0, filetypes |-> EmptyDict, initial_load |-> FALSE,
     readonly |-> readonly]

\* SourceLoader.update
update(l, other) ==
    IF l.readonly THEN Raised(l, "RuntimeError")
    ELSE Returned([l EXCEPT !.files = dict_update(@, other)])

\* SourceLoader.__setitem__
setitem(l, key, value) ==
    IF l.readonly THEN Raised(l, "RuntimeError")
    ELSE Returned([l EXCEPT !.files = Put(@, key, value)])

\* SourceLoader.__getitem__
getitem(l, key) ==
    IF ~l.initial_load THEN Raised(l, "RuntimeError")
    ELSE IF ~Has(l.files, key) THEN Raised(l, "KeyError")
    ELSE Returned(l)

\* dict.__delitem__, which SourceLoader does not override
delitem(l, key) ==
    IF ~Has(l.files, key) THEN Raised(l, "KeyError")
    ELSE Returned([l EXCEPT !.files = Del(@, key)])

\* dict.pop(key), which SourceLoader does not override
pop(l, key) ==
    IF ~Has(l.files, key) THEN Raised(l, "KeyError")
    ELSE Returned([l EXCEPT !.files = Del(@, key)])

\* dict.clear, which SourceLoader does not override
clear(l) == Returned([l EXCEPT !.files = EmptyDict])

\* SourceLoader.load_sources: disk is the content of the source directory in
\* walk order, kind what source_path is, unreadable the files open() fails on
load_sources(l, disk, kind, unreadable) ==
    IF kind = "missing" THEN Raised(l, "FileNotFoundError")
    ELSE IF kind = "file" THEN Raised(l, "NotADirectoryError")
    ELSE LET read == SelectSeq(disk, LAMBDA e : e.k \notin unreadable)
             counted == [l EXCEPT !.filecount = Len(read)]
             updated == update(counted, read)
         IN IF updated.raised # "none" THEN updated
            ELSE Returned([updated.l EXCEPT
                              !.filetypes = count_filetypes(updated.l.files, EmptyDict),
                              !.initial_load = TRUE])

A_PNG == <<"a", ".", "p", "n", "g">>

B_PNG == <<"d", "/", "b", ".", "P", "N", "G">>

C_BARE == <<"c">>

LoaderPaths == {A_PNG, B_PNG, C_BARE}

Directories ==
    { <<>>,
      <<[k |-> A_PNG, v |-> Raw("a")]>>,
      <<[k |-> A_PNG, v |-> Raw("a")], [k |-> B_PNG, v |-> Raw("b")]>>,
      <<[k |-> C_BARE, v |-> Raw("c")], [k |-> B_PNG, v |-> Raw("b")]>> }

InitLoader ==
    /\ pc = "constructed"
    /\ src_files \in Directories
    /\ loader \in {SourceLoader(readonly) : readonly \in BOOLEAN}
    /\ gen_images = <<>>
    /\ formats = [f \in TierKeys |-> "label"]
    /\ max_format = 0
    /\ dpi_values = <<>>
    /\ svg_process_toggle = FALSE
    /\ allowed_paths = <<>>
    /\ license_file = <<>>
    /\ args = [format |-> None, dry_run |-> FALSE]
    /\ cur_fmt = None
    /\ cur_scale = None
    /\ todo = <<>>
    /\ scales_todo = <<>>
    /\ zips = <<>>
    /\ errors = <<>>
    /\ exit_code = 0
    /\ visited = <<>>
    /\ scanned = [src |-> src_files, img |-> gen_images]
    /\ pre_src = src_files
    /\ pre_img = gen_images
    /\ left_src = src_files
    /\ left_img = gen_images
    /\ color_map = <<>>
    /\ theme_color_map = <<>>
    /\ sorted_scales = <<>>
    /\ flags = NoFlags
    /\ IdleTagger

LoaderFrame == <<src_files, gen_images, formats, max_format, dpi_values,
                 svg_process_toggle, allowed_paths, license_file, args, cur_fmt,
                 cur_scale, todo, scales_todo, zips, exit_code, scanned, pre_src,
                 pre_img, left_src, left_img, visited, Tagger, color_map,
                 theme_color_map, sorted_scales, flags>>

\* what the call raised, if anything
Outcome(r) == IF r.raised = "none" THEN <<>> ELSE <<r.raised>>

LoadSources ==
    \E kind \in {"dir", "missing", "file"}, unreadable \in SUBSET Keys(src_files) :
        LET r == load_sources(loader, src_files, kind, unreadable)
        IN /\ loader' = r.l
           /\ errors' = Outcome(r)
           /\ pc' = "load_sources"
           /\ UNCHANGED LoaderFrame

SetItem ==
    \E key \in LoaderPaths, value \in {Raw("new")} :
        LET r == setitem(loader, key, value)
        IN /\ loader' = r.l
           /\ errors' = Outcome(r)
           /\ pc' = "setitem"
           /\ UNCHANGED LoaderFrame

Update ==
    \E other \in Directories :
        LET r == update(loader, other)
        IN /\ loader' = r.l
           /\ errors' = Outcome(r)
           /\ pc' = "update"
           /\ UNCHANGED LoaderFrame

GetItem ==
    \E key \in LoaderPaths :
        LET r == getitem(loader, key)
        IN /\ loader' = r.l
           /\ errors' = Outcome(r)
           /\ pc' = "getitem"
           /\ UNCHANGED LoaderFrame

DelItem ==
    \E key \in LoaderPaths :
        LET r == delitem(loader, key)
        IN /\ loader' = r.l
           /\ errors' = Outcome(r)
           /\ pc' = "delitem"
           /\ UNCHANGED LoaderFrame

Pop ==
    \E key \in LoaderPaths :
        LET r == pop(loader, key)
        IN /\ loader' = r.l
           /\ errors' = Outcome(r)
           /\ pc' = "pop"
           /\ UNCHANGED LoaderFrame

Clear ==
    LET r == clear(loader)
    IN /\ loader' = r.l
       /\ errors' = Outcome(r)
       /\ pc' = "clear"
       /\ UNCHANGED LoaderFrame

\* loader.readonly = value, which the class allows at any time
SetReadonly ==
    \E value \in BOOLEAN :
        /\ loader' = [loader EXCEPT !.readonly = value]
        /\ pc' = "readonly"
        /\ errors' = <<>>
        /\ UNCHANGED LoaderFrame

NextLoader ==
    \/ LoadSources
    \/ SetItem
    \/ Update
    \/ GetItem
    \/ DelItem
    \/ Pop
    \/ Clear
    \/ SetReadonly

SpecLoader == InitLoader /\ [][NextLoader]_vars

Modifying == {"load_sources", "setitem", "update", "delitem", "pop"}

\* C16: while readonly is True, every attempt to modify the loaded files
\* raises RuntimeError (load_sources may raise for an unusable directory
\* before that, a removal KeyError for an entry that is not there) and leaves
\* the mapping, filecount and filetypes as they were.
C16_ReadonlyBlocks ==
    [][(loader.readonly /\ pc' \in Modifying) =>
           /\ \/ errors' = <<"RuntimeError">>
              \/ /\ pc' = "load_sources"
                 /\ errors' \in {<<"FileNotFoundError">>, <<"NotADirectoryError">>}
              \/ /\ pc' \in {"delitem", "pop"}
                 /\ errors' = <<"KeyError">>
           /\ loader'.files = loader.files
           /\ loader'.filecount = loader.filecount
           /\ loader'.filetypes = loader.filetypes]_vars

------------------------------------------------------------------------------
(* ResolutionTagger: tagged directories and merging *)

\* the position of the separator that ends the tag of a singly tagged path
SiteEnd(path) == SiteOf(path) + 1 + Len(Token(path, SiteOf(path) + 1))

SingleValid(path) ==
    Cardinality(TagSites(path)) = 1 /\ SizeOf(path) \in {32, 64, 128}

TaggedDirectory(path) == SingleValid(path) /\ path[SiteEnd(path)] = "/"

AtBoundary(path) == SiteOf(path) = 1 \/ path[SiteOf(path) - 1] = "/"

\* the path up to and including the tagged directory's separator
Prefix(path) == SubSeq(path, 1, SiteEnd(path))

\* the path without its tag and the separator after it
Base(path) ==
    SubSeq(path, 1, SiteOf(path) - 1) \o SubSeq(path, SiteEnd(path) + 1, Len(path))

\* another source path with the same base and the same size
Rival(path) ==
    \E other \in SourceSet :
        /\ other # path
        /\ SingleValid(other)
        /\ Base(other) = Base(path)
        /\ SizeOf(other) = SizeOf(path)

\* C18: a path with a single, valid tag followed by "/" is in the
\* ResolutionTagMap if and only if the tag begins the path or follows a "/";
\* otherwise it is not in the map and its directory prefix is recorded as an
\* InvalidResolutionDirectory error.
C18_DirectoryBoundary ==
    pc = "tagged" =>
        \A path \in SourceSet :
            (TaggedDirectory(path) /\ ~Rival(path)) =>
                IF AtBoundary(path)
                THEN Mapped(path) /\ ~Has(tagged.invalid_dir, Prefix(path))
                ELSE ~Mapped(path) /\ Has(tagged.invalid_dir, Prefix(path))

\* C19: an invalid tagged-directory prefix is recorded once, and its file
\* count is the number of source paths that share the prefix.
C19_CountPerPrefix ==
    pc = "tagged" =>
        \A i \in DOMAIN tagged.invalid_dir :
            /\ \A j \in DOMAIN tagged.invalid_dir :
                  tagged.invalid_dir[j].k = tagged.invalid_dir[i].k => j = i
            /\ tagged.invalid_dir[i].v.filecount
                  = Cardinality({path \in SourceSet :
                                    /\ TaggedDirectory(path)
                                    /\ Prefix(path) = tagged.invalid_dir[i].k})

Valid(path) ==
    \/ TagSites(path) = {}
    \/ /\ SingleValid(path)
       /\ ~(TaggedDirectory(path) /\ Has(tagged.invalid_dir, Prefix(path)))

\* the slots of the map that hold the path
Slots(path) ==
    {slot \in {<<i, j>> : i \in DOMAIN tagged.proxy, j \in 1..MaxSources} :
        /\ slot[2] \in DOMAIN tagged.proxy[slot[1]].v
        /\ tagged.proxy[slot[1]].v[slot[2]].v = path}

\* C30: every source path that passes validation is the value of exactly one
\* slot of the ResolutionTagMap: no two valid paths land on the same base and
\* resolution, so none is replaced by another.
C30_EveryValidPath ==
    pc = "tagged" =>
        \A path \in SourceSet : Valid(path) => Cardinality(Slots(path)) = 1

====
